---- MODULE Spec2Model ----
(***************************************************************************)
(* Cadastre-Parcels: the geographic bounding-box / page-transform          *)
(* utilities (src/utils/geo-transform.ts) and the built-area computation   *)
(* of level 4 (src/level4.ts).                                             *)
(*                                                                         *)
(* Numbers.  A JavaScript number is modelled as an extended rational       *)
(* <<n, d>> with d >= 0 in lowest terms: d > 0 is the finite value n/d,    *)
(* <<1,0>> is +Infinity, <<-1,0>> is -Infinity and <<0,0>> is NaN.  The    *)
(* IEEE-754 rules for the special values are kept (x/0, Inf-Inf, Inf*0,    *)
(* comparisons with NaN); rounding and the sign of zero are not modelled,  *)
(* so finite arithmetic is exact.                                          *)
(***************************************************************************)
EXTENDS Integers, Sequences, FiniteSets, TLC

(***************************************************************************)
(* Bounds of the model.                                                    *)
(***************************************************************************)
MaxPolys == 2        \* polygons per MultiPolygon
MaxRings == 2        \* rings per polygon
MaxPoints == 2       \* positions of a coordinate structure, all rings together
MaxBuildings == 2    \* buildings handed to computeBuiltArea
NumCells == 2        \* cells of the plane the parcel and buildings cover

(***************************************************************************)
(* JavaScript numbers.                                                     *)
(***************************************************************************)
Abs(i) == IF i < 0 THEN -i ELSE i

Sign(i) == IF i < 0 THEN -1 ELSE IF i > 0 THEN 1 ELSE 0

RECURSIVE GCD(_, _)
GCD(a, b) == IF b = 0 THEN a ELSE GCD(b, a % b)

\* the number n/d for d >= 0, in lowest terms
Norm(n, d) ==
    IF d = 0 THEN <<Sign(n), 0>>
    ELSE LET g == GCD(Abs(n), d) IN <<n \div g, d \div g>>

Num(i) == <<i, 1>>
Frac(n, d) == Norm(n, d)
NaN == <<0, 0>>
PosInf == <<1, 0>>
NegInf == <<-1, 0>>

IsNaN(a) == a = NaN
IsFinite(a) == a[2] > 0

FNeg(a) == <<-a[1], a[2]>>

FAdd(a, b) ==
    IF a[2] = 0 /\ b[2] = 0
    THEN (IF a = b THEN a ELSE NaN)
    ELSE Norm(a[1] * b[2] + b[1] * a[2], a[2] * b[2])

FSub(a, b) == FAdd(a, FNeg(b))

FMul(a, b) == Norm(a[1] * b[1], a[2] * b[2])

FDiv(a, b) ==
    LET s == IF b[1] < 0 THEN -1 ELSE 1
    IN  Norm(s * a[1] * b[2], a[2] * s * b[1])

\* a <= b and a < b as JavaScript evaluates them (false when either is NaN)
FLe(a, b) ==
    /\ ~IsNaN(a)
    /\ ~IsNaN(b)
    /\ IF a[2] = 0 /\ b[2] = 0 THEN a[1] <= b[1]
       ELSE a[1] * b[2] <= b[1] * a[2]

FLt(a, b) == FLe(a, b) /\ a # b

\* variant: the minimum of no number is NaN
RECURSIVE MathMin_nanWhenEmpty(_)
MathMin_nanWhenEmpty(xs) ==
    IF xs = <<>> THEN NaN
    ELSE IF Len(xs) = 1 THEN Head(xs)
    ELSE LET r == MathMin_nanWhenEmpty(Tail(xs)) IN
         IF IsNaN(Head(xs)) \/ IsNaN(r) THEN NaN
         ELSE IF FLe(Head(xs), r) THEN Head(xs) ELSE r

\* Math.min(...xs) and Math.max(...xs)
RECURSIVE MathMin(_)
MathMin(xs) ==
    IF xs = <<>> THEN PosInf
    ELSE LET r == MathMin(Tail(xs)) IN
         IF IsNaN(Head(xs)) \/ IsNaN(r) THEN NaN
         ELSE IF FLe(Head(xs), r) THEN Head(xs) ELSE r

RECURSIVE MathMax(_)
MathMax(xs) ==
    IF xs = <<>> THEN NegInf
    ELSE LET r == MathMax(Tail(xs)) IN
         IF IsNaN(Head(xs)) \/ IsNaN(r) THEN NaN
         ELSE IF FLe(r, Head(xs)) THEN Head(xs) ELSE r

(***************************************************************************)
(* Sequences.                                                              *)
(***************************************************************************)
SeqUpTo(S, k) == UNION {[1..n -> S] : n \in 0..k}

\* Array.prototype.flat(1) on an array of arrays
RECURSIVE Flat(_)
Flat(s) == IF s = <<>> THEN <<>> ELSE Head(s) \o Flat(Tail(s))

Map0(ps) == [k \in 1..Len(ps) |-> ps[k][1]]
Map1(ps) == [k \in 1..Len(ps) |-> ps[k][2]]

Range(s) == {s[k] : k \in 1..Len(s)}

(***************************************************************************)
(* State.                                                                  *)
(***************************************************************************)
VARIABLES
    op,             \* the call that completed last
    proj,           \* the behaviour of the projection library in this process
    coordinates,    \* computeBbox: argument
    bbox,           \* computeBbox: returned box
    expandArgs,     \* expandBbox: <<bbox, marginPercent>>
    expanded,       \* expandBbox: returned box
    transformArgs,  \* createGeoToPdfTransform: <<geoBbox, pageWidth, pageHeight>>
    geoBboxArray,   \* the caller's bbox array, as it is now
    transform,      \* createGeoToPdfTransform: returned object
    pixelArgs,      \* toPixel: <<lon, lat>>
    pixel,          \* toPixel: returned pair
    parcelFeature,  \* computeBuiltArea: the parcel
    buildings,      \* computeBuiltArea: the buildings
    areaPc,         \* computeBuiltArea: "idle", "loop", "done"; then "pushed"
    i,              \* computeBuiltArea: index of the next building of the loop
    builtArea,      \* computeBuiltArea: running total
    buildingIntersections,  \* computeBuiltArea: result list
    surfaceData,    \* generateLevel4: the record pushed for the parcel
    parseArg,       \* parseParcelId: argument
    parsed,         \* parseParcelId: outcome (value returned or error thrown)
    calls,          \* fetchParcelGeometry: the calls made, each with its position
    events,         \* cache accesses and HTTP requests, in the order they happen
    parcellesCache, \* codeInsee -> the collection object cached for it
    heap,           \* the collection objects parsed from the responses
    download,       \* downloadCadastralPDF: the call, with its position
    wmsRequests,    \* the requests sent to the WMS server, in order
    drawArgs,       \* drawMultiPolygon: its arguments
    page,           \* the drawSvgPath calls the page received, in order
    run             \* a run of level 2, 3 or 4 once the parcels are fetched

geoVars == <<coordinates, bbox, expandArgs, expanded,
             transformArgs, geoBboxArray, transform, pixelArgs, pixel>>
areaVars == <<parcelFeature, buildings, areaPc, i, builtArea,
              buildingIntersections, surfaceData>>
fetchVars == <<parseArg, parsed, calls, events, parcellesCache, heap>>
pdfVars == <<download, wmsRequests>>
drawVars == <<drawArgs, page>>
vars == <<op, proj, geoVars, areaVars, fetchVars, pdfVars, drawVars, run>>

(***************************************************************************)
(* src/utils/geo-transform.ts                                              *)
(***************************************************************************)
\* parameters of the Lambert 93 definition string
x_0 == 700000
y_0 == 6600000
lon_0 == 3

lat_0 == Frac(93, 2)

\* proj4 is an external library: its conic projection is represented by a
\* map that sends the projection origin to the false origin and is scaled
\* by proj (metres per degree along each axis), fixed for the process.
ProjScales == {<<70000, 111000>>, <<80000, 111000>>}

proj4(scale, lon, lat) ==
    << FAdd(Num(x_0), FMul(Num(scale[1]), FSub(lon, Num(lon_0)))),
       FAdd(Num(y_0), FMul(Num(scale[2]), FSub(lat, lat_0))) >>

wgs84ToLambert93(lon, lat) == proj4(proj, lon, lat)

\* variant: the y axis is inverted (PDF origin taken at the top)
toPixel_flipY(t, lon, lat) ==
    LET px == FMul(FDiv(FSub(lon, t.minLon), t.geoWidth), t.pageWidth)
        py == FSub(t.pageHeight,
                   FMul(FDiv(FSub(lat, t.minLat), t.geoHeight), t.pageHeight))
    IN  <<px, py>>

\* variant: one scale factor, that of the x axis, is applied to both axes
toPixel_uniformScale(t, lon, lat) ==
    LET scale == FDiv(t.pageWidth, t.geoWidth)
    IN  <<FMul(FSub(lon, t.minLon), scale), FMul(FSub(lat, t.minLat), scale)>>

\* variant: the closure reads the caller's array at each call
toPixel_liveBbox(t, lon, lat) ==
    LET live == IF Len(geoBboxArray) = 4 THEN geoBboxArray
                ELSE <<t.minLon, t.minLat, FAdd(t.minLon, t.geoWidth),
                       FAdd(t.minLat, t.geoHeight)>>
        geoWidth == FSub(live[3], live[1])
        geoHeight == FSub(live[4], live[2])
        px == FMul(FDiv(FSub(lon, live[1]), geoWidth), t.pageWidth)
        py == FMul(FDiv(FSub(lat, live[2]), geoHeight), t.pageHeight)
    IN  <<px, py>>

\* variant: a zero extent is guarded and mapped to 0
toPixel_guarded(t, lon, lat) ==
    LET px == IF t.geoWidth = Num(0) THEN Num(0)
              ELSE FMul(FDiv(FSub(lon, t.minLon), t.geoWidth), t.pageWidth)
        py == IF t.geoHeight = Num(0) THEN Num(0)
              ELSE FMul(FDiv(FSub(lat, t.minLat), t.geoHeight), t.pageHeight)
    IN  <<px, py>>

toPixel(t, lon, lat) ==
    LET px == FMul(FDiv(FSub(lon, t.minLon), t.geoWidth), t.pageWidth)
        py == FMul(FDiv(FSub(lat, t.minLat), t.geoHeight), t.pageHeight)
    IN  <<px, py>>

\* variant: the corners are handed to the projection as (lat, lon)
createGeoToPdfTransform_latLon(geoBbox, pageWidth, pageHeight) ==
    LET minLon == geoBbox[1]
        minLat == geoBbox[2]
        maxLon == geoBbox[3]
        maxLat == geoBbox[4]
        geoWidth == FSub(maxLon, minLon)
        geoHeight == FSub(maxLat, minLat)
    IN  [ minLon |-> minLon, minLat |-> minLat,
          geoWidth |-> geoWidth, geoHeight |-> geoHeight,
          pageWidth |-> pageWidth, pageHeight |-> pageHeight,
          bboxLambert |-> wgs84ToLambert93(minLat, minLon)
                            \o wgs84ToLambert93(maxLat, maxLon) ]

createGeoToPdfTransform(geoBbox, pageWidth, pageHeight) ==
    LET minLon == geoBbox[1]
        minLat == geoBbox[2]
        maxLon == geoBbox[3]
        maxLat == geoBbox[4]
        geoWidth == FSub(maxLon, minLon)
        geoHeight == FSub(maxLat, minLat)
    IN  [ minLon |-> minLon, minLat |-> minLat,
          geoWidth |-> geoWidth, geoHeight |-> geoHeight,
          pageWidth |-> pageWidth, pageHeight |-> pageHeight,
          bboxLambert |-> wgs84ToLambert93(minLon, minLat)
                            \o wgs84ToLambert93(maxLon, maxLat) ]

\* variant: flat(1) only, so that just the first ring of each polygon counts
computeBbox_outerRings(coords) ==
    LET allPoints == Flat([k \in 1..Len(coords) |->
                             IF coords[k] = <<>> THEN <<>> ELSE coords[k][1]])
        lons == Map0(allPoints)
        lats == Map1(allPoints)
    IN  <<MathMin(lons), MathMin(lats), MathMax(lons), MathMax(lats)>>

\* variant: only the first polygon of the MultiPolygon is looked at
computeBbox_firstPolygon(coords) ==
    LET allPoints == IF coords = <<>> THEN <<>> ELSE Flat(coords[1])
        lons == Map0(allPoints)
        lats == Map1(allPoints)
    IN  <<MathMin(lons), MathMin(lats), MathMax(lons), MathMax(lats)>>

computeBbox(coords) ==
    LET allPoints == Flat(Flat(coords))
        lons == Map0(allPoints)
        lats == Map1(allPoints)
    IN  <<MathMin(lons), MathMin(lats), MathMax(lons), MathMax(lats)>>

Undefined == <<>>
DefaultMargin == Frac(1, 10)

\* variant: the longitude margin is used on both axes
expandBbox_sameDelta(box, marginArg) ==
    LET marginPercent == IF marginArg = Undefined THEN DefaultMargin
                         ELSE marginArg
        dLon == FMul(FSub(box[3], box[1]), marginPercent)
    IN  <<FSub(box[1], dLon), FSub(box[2], dLon),
          FAdd(box[3], dLon), FAdd(box[4], dLon)>>

\* variant: the default is applied with ||, so a margin of 0 becomes 0.1
expandBbox_falsyDefault(box, marginArg) ==
    LET marginPercent == IF marginArg = Undefined \/ marginArg = Num(0)
                         THEN DefaultMargin ELSE marginArg
        dLon == FMul(FSub(box[3], box[1]), marginPercent)
        dLat == FMul(FSub(box[4], box[2]), marginPercent)
    IN  <<FSub(box[1], dLon), FSub(box[2], dLat),
          FAdd(box[3], dLon), FAdd(box[4], dLat)>>

\* variant: the margin is added to the minima and taken off the maxima
expandBbox_inward(box, marginArg) ==
    LET marginPercent == IF marginArg = Undefined THEN DefaultMargin
                         ELSE marginArg
        dLon == FMul(FSub(box[3], box[1]), marginPercent)
        dLat == FMul(FSub(box[4], box[2]), marginPercent)
    IN  <<FAdd(box[1], dLon), FAdd(box[2], dLat),
          FSub(box[3], dLon), FSub(box[4], dLat)>>

\* variant: the margin is a fraction of the whole extent on each side twice
expandBbox_doubled(box, marginArg) ==
    LET marginPercent == IF marginArg = Undefined THEN DefaultMargin
                         ELSE marginArg
        dLon == FMul(FMul(FSub(box[3], box[1]), marginPercent), Num(2))
        dLat == FMul(FMul(FSub(box[4], box[2]), marginPercent), Num(2))
    IN  <<FSub(box[1], dLon), FSub(box[2], dLat),
          FAdd(box[3], dLon), FAdd(box[4], dLat)>>

expandBbox(box, marginArg) ==
    LET marginPercent == IF marginArg = Undefined THEN DefaultMargin
                         ELSE marginArg
        minLon == box[1]
        minLat == box[2]
        maxLon == box[3]
        maxLat == box[4]
        dLon == FMul(FSub(maxLon, minLon), marginPercent)
        dLat == FMul(FSub(maxLat, minLat), marginPercent)
    IN  <<FSub(minLon, dLon), FSub(minLat, dLat),
          FAdd(maxLon, dLon), FAdd(maxLat, dLat)>>

(***************************************************************************)
(* src/level4.ts: computeBuiltArea.                                        *)
(*                                                                         *)
(* turf is an external library.  A geometry is the set of cells of the     *)
(* plane it covers; fault tells which library call fails on it ("none",    *)
(* "intersect": turf.intersect throws, "area": turf.area throws on the     *)
(* intersection).                                                          *)
(***************************************************************************)
Cells == 1..NumCells
Faults == {"none", "intersect", "area"}

CellArea(c) == c

RECURSIVE SumArea(_)
SumArea(S) ==
    IF S = {} THEN 0
    ELSE LET c == CHOOSE x \in S : TRUE IN CellArea(c) + SumArea(S \ {c})

\* turf.intersect(turf.featureCollection([a, b])): null when no overlap
turfIntersect(a, b) ==
    IF a.fault = "intersect" \/ b.fault = "intersect"
    THEN [threw |-> TRUE, isNull |-> TRUE, cells |-> {}, fault |-> "none"]
    ELSE [threw |-> FALSE,
          isNull |-> (a.cells \cap b.cells = {}),
          cells |-> a.cells \cap b.cells,
          fault |-> IF a.fault = "area" \/ b.fault = "area"
                    THEN "area" ELSE "none"]

\* turf.area(f)
turfArea(f) ==
    IF f.fault = "area" THEN [threw |-> TRUE, value |-> 0]
    ELSE [threw |-> FALSE, value |-> SumArea(f.cells)]

\* variant: the area of the whole building is accumulated
loopBody_buildingArea(acc, parcel, building) ==
    LET intersection == turfIntersect(parcel, building) IN
    IF intersection.threw THEN acc
    ELSE IF intersection.isNull THEN acc
    ELSE LET area == turfArea(building) IN
         IF area.threw THEN acc
         ELSE [builtArea |-> acc.builtArea + area.value,
               buildingIntersections |->
                   Append(acc.buildingIntersections,
                          [cells |-> intersection.cells,
                           fault |-> intersection.fault])]

\* variant: the intersection is pushed before its area is computed
loopBody_pushFirst(acc, parcel, building) ==
    LET intersection == turfIntersect(parcel, building) IN
    IF intersection.threw THEN acc
    ELSE IF intersection.isNull THEN acc
    ELSE LET area == turfArea(intersection)
             pushed == Append(acc.buildingIntersections,
                              [cells |-> intersection.cells,
                               fault |-> intersection.fault])
         IN  IF area.threw
             THEN [builtArea |-> acc.builtArea,
                   buildingIntersections |-> pushed]
             ELSE [builtArea |-> acc.builtArea + area.value,
                   buildingIntersections |-> pushed]

\* variant: the running total is capped at the area of the parcel
loopBody_capped(acc, parcel, building) ==
    LET intersection == turfIntersect(parcel, building) IN
    IF intersection.threw THEN acc
    ELSE IF intersection.isNull THEN acc
    ELSE LET area == turfArea(intersection)
             total == turfArea(parcel).value
         IN  IF area.threw THEN acc
             ELSE [builtArea |-> IF acc.builtArea + area.value > total
                                 THEN total
                                 ELSE acc.builtArea + area.value,
                   buildingIntersections |->
                       Append(acc.buildingIntersections,
                              [cells |-> intersection.cells,
                               fault |-> intersection.fault])]

\* one iteration of the for loop: the try block and its empty catch
loopBody(acc, parcel, building) ==
    LET intersection == turfIntersect(parcel, building) IN
    IF intersection.threw THEN acc
    ELSE IF intersection.isNull THEN acc
    ELSE LET area == turfArea(intersection) IN
         IF area.threw THEN acc
         ELSE [builtArea |-> acc.builtArea + area.value,
               buildingIntersections |->
                   Append(acc.buildingIntersections,
                          [cells |-> intersection.cells,
                           fault |-> intersection.fault])]

(***************************************************************************)
(* src/level4.ts: generateLevel4, the surface record of one parcel.        *)
(***************************************************************************)
\* feature.properties?.contenance ?? turf.area(feature)
totalAreaOf(contenance, feature) ==
    IF contenance = Undefined THEN Num(turfArea(feature).value)
    ELSE contenance

\* variant: the unbuilt area is the plain difference
surfaceRecord_noFloor(totalArea, built) ==
    [ totalArea |-> totalArea,
      builtArea |-> Num(built),
      unbuiltArea |-> FSub(totalArea, Num(built)),
      occupancyRate |-> IF FLt(Num(0), totalArea)
                        THEN FMul(FDiv(Num(built), totalArea), Num(100))
                        ELSE Num(0) ]

\* variant: the rate is computed without the totalArea > 0 test
surfaceRecord_noGuard(totalArea, built) ==
    [ totalArea |-> totalArea,
      builtArea |-> Num(built),
      unbuiltArea |-> MathMax(<<Num(0), FSub(totalArea, Num(built))>>),
      occupancyRate |-> FMul(FDiv(Num(built), totalArea), Num(100)) ]

\* unbuiltArea, occupancyRate and the pushed record
surfaceRecord(totalArea, built) ==
    [ totalArea |-> totalArea,
      builtArea |-> Num(built),
      unbuiltArea |-> MathMax(<<Num(0), FSub(totalArea, Num(built))>>),
      occupancyRate |-> IF FLt(Num(0), totalArea)
                        THEN FMul(FDiv(Num(built), totalArea), Num(100))
                        ELSE Num(0) ]

(***************************************************************************)
(* src/utils/cadastre-api.ts.  A string is the sequence of its characters;  *)
(* the fixed parts of a message are single tokens.                          *)
(***************************************************************************)
\* s.slice(a, b) for 0 <= a <= b
slice(s, a, b) == SubSeq(s, a + 1, IF b < Len(s) THEN b ELSE Len(s))

IdLength == 14

\* `Invalid parcel identifier: "${id}" (expected: 14 characters, e.g. ...)`
InvalidParcelIdentifier(id) ==
    <<"Invalid parcel identifier: \"">> \o id
        \o <<"\" (expected: 14 characters, e.g. 33063000BW0012)">>

\* variant: only identifiers that are too short are refused
parseParcelId_minLength(id) ==
    IF Len(id) < IdLength
    THEN [threw |-> TRUE, error |-> InvalidParcelIdentifier(id),
          value |-> Undefined]
    ELSE LET codeDep == slice(id, 0, 2)
             codeCom == slice(id, 2, 5)
             comAbs  == slice(id, 5, 8)
             section == slice(id, 8, 10)
             numero  == slice(id, 10, 14)
         IN [threw |-> FALSE, error |-> Undefined,
             value |-> [ codeInsee |-> codeDep \o codeCom,
                         comAbs    |-> comAbs,
                         section   |-> section,
                         numero    |-> numero,
                         codeDep   |-> codeDep ]]

\* variant: the section is read one character early
parseParcelId_sectionEarly(id) ==
    IF Len(id) # IdLength
    THEN [threw |-> TRUE, error |-> InvalidParcelIdentifier(id),
          value |-> Undefined]
    ELSE LET codeDep == slice(id, 0, 2)
             codeCom == slice(id, 2, 5)
             comAbs  == slice(id, 5, 8)
             section == slice(id, 7, 9)
             numero  == slice(id, 10, 14)
         IN [threw |-> FALSE, error |-> Undefined,
             value |-> [ codeInsee |-> codeDep \o codeCom,
                         comAbs    |-> comAbs,
                         section   |-> section,
                         numero    |-> numero,
                         codeDep   |-> codeDep ]]

parseParcelId(id) ==
    IF Len(id) # IdLength
    THEN [threw |-> TRUE, error |-> InvalidParcelIdentifier(id),
          value |-> Undefined]
    ELSE LET codeDep == slice(id, 0, 2)
             codeCom == slice(id, 2, 5)
             comAbs  == slice(id, 5, 8)
             section == slice(id, 8, 10)
             numero  == slice(id, 10, 14)
         IN [threw |-> FALSE, error |-> Undefined,
             value |-> [ codeInsee |-> codeDep \o codeCom,
                         comAbs    |-> comAbs,
                         section   |-> section,
                         numero    |-> numero,
                         codeDep   |-> codeDep ]]

\* formatHttpError(err, context), err being an AxiosError
formatHttpError(err, context) ==
    IF err.code = "ECONNABORTED"
    THEN context \o <<": request timed out">>
    ELSE IF err.code \in {"ENOTFOUND", "EAI_AGAIN"}
    THEN context \o <<": unable to reach the server (check your Internet connection)">>
    ELSE IF err.response
    THEN IF err.status = "404"
         THEN context \o <<": resource not found (404)">>
         ELSE context \o <<": HTTP error ", err.status>>
    ELSE context \o <<": network error (", err.message, ")">>

DownloadingBuildings(codeInsee) ==
    <<"Downloading buildings for municipality ">> \o codeInsee

UnableToDecodeBuildings(codeInsee) ==
    <<"Unable to decode building data for municipality ">> \o codeInsee
        \o <<" (corrupted file or unexpected format)">>

DownloadingParcels(codeInsee) ==
    <<"Downloading parcels for municipality ">> \o codeInsee

UnableToDecode(codeInsee) ==
    <<"Unable to decode parcel data for municipality ">> \o codeInsee
        \o <<" (corrupted file or unexpected format)">>

InvalidParcelData(codeInsee) ==
    <<"Invalid parcel data for municipality ">> \o codeInsee
        \o <<": unexpected GeoJSON format">>

ParcelNotFound(id, codeInsee) ==
    <<"Parcel not found: ">> \o id \o <<" in municipality ">> \o codeInsee

\* f.properties?.id
propertiesId(f) ==
    IF f.properties = Undefined THEN Undefined ELSE f.properties.id

\* index of collection.features.find((f) => f.properties?.id === id), 0 when
\* there is none
find(features, id) ==
    IF \E k \in 1..Len(features) : propertiesId(features[k]) = id
    THEN CHOOSE k \in 1..Len(features) :
             /\ propertiesId(features[k]) = id
             /\ \A j \in 1..(k - 1) : propertiesId(features[j]) # id
    ELSE 0

\* variant: a Polygon is returned as it is
toMultiPolygon_asIs(feature) == feature

\* the feature after `if (geom.type === "Polygon") feature.geometry = {...}`
toMultiPolygon(feature) ==
    IF feature.geometry.type = "Polygon"
    THEN [feature EXCEPT !.geometry =
              [ type |-> "MultiPolygon",
                coordinates |-> << feature.geometry.coordinates >> ]]
    ELSE feature

\* parcellesCache.set(codeInsee, collection)
cacheSet(cache, codeInsee, collection) ==
    [c \in DOMAIN cache \cup {codeInsee} |->
        IF c = codeInsee THEN collection ELSE cache[c]]

\* text.includes(needle)
includes(text, needle) ==
    \E j \in 1..(Len(text) - Len(needle) + 1) :
        \A n \in 1..Len(needle) : text[j + n - 1] = needle[n]

\* variant: a bbox is refused only when a maximum is below its minimum
isInvalidBbox_strict(box) ==
    FLt(box[3], box[1]) \/ FLt(box[4], box[2])

\* minLon >= maxLon || minLat >= maxLat
\* variant: only the longitudes are compared
isInvalidBbox_lonOnly(box) == FLe(box[3], box[1])

isInvalidBbox(box) ==
    FLe(box[3], box[1]) \/ FLe(box[4], box[2])

InvalidBbox(box) ==
    [ text |-> <<"Invalid bbox: [",
                 "]. Ensure minLon < maxLon and minLat < maxLat.">>,
      bbox |-> box ]

\* variant: the BBOX parameter is written longitude first
wmsRequest_lonFirst(params) ==
    [ url     |-> "https://data.geopf.fr/wms-v/ows",
      SERVICE |-> "WMS",
      VERSION |-> "1.3.0",
      REQUEST |-> "GetMap",
      LAYERS  |-> "CADASTRALPARCELS.PCI_VECTEUR",
      CRS     |-> "EPSG:4326",
      BBOX    |-> <<params.bbox[1], params.bbox[2],
                    params.bbox[3], params.bbox[4]>>,
      WIDTH   |-> IF params.width = Undefined THEN Num(1190)
                  ELSE params.width,
      HEIGHT  |-> IF params.height = Undefined THEN Num(842)
                  ELSE params.height,
      FORMAT  |-> "application/pdf",
      STYLES  |-> "" ]

\* the request of downloadCadastralPDF; BBOX is the list the template
\* `${minLat},${minLon},${maxLat},${maxLon}` joins
wmsRequest(params) ==
    LET minLon == params.bbox[1]
        minLat == params.bbox[2]
        maxLon == params.bbox[3]
        maxLat == params.bbox[4]
        width  == IF params.width = Undefined THEN Num(1190) ELSE params.width
        height == IF params.height = Undefined THEN Num(842)
                  ELSE params.height
    IN  [ url     |-> "https://data.geopf.fr/wms-v/ows",
          SERVICE |-> "WMS",
          VERSION |-> "1.3.0",
          REQUEST |-> "GetMap",
          LAYERS  |-> "CADASTRALPARCELS.PCI_VECTEUR",
          CRS     |-> "EPSG:4326",
          BBOX    |-> <<minLat, minLon, maxLat, maxLon>>,
          WIDTH   |-> width,
          HEIGHT  |-> height,
          FORMAT  |-> "application/pdf",
          STYLES  |-> "" ]

PdfMagic == <<"%", "P", "D", "F", "-">>
ServiceException == <<"S", "e", "r", "v", "i", "c", "e", "E", "x", "c", "e", "p", "t", "i", "o", "n">>
ErrorWord == <<"E", "r", "r", "o", "r">>

WmsReturnedError(box) ==
    [ text |-> <<"The WMS server returned an error instead of a PDF. Check the bbox [",
                 "].">>,
      bbox |-> box ]

NotAValidPdf ==
    [ text |-> <<"The WMS server response is not a valid PDF.">>,
      bbox |-> Undefined ]

\* variant: the whole response is searched for the error words
pdfOutcome_wholeText(params, data) ==
    IF Len(data) < 5 \/ slice(data, 0, 5) # PdfMagic
    THEN IF includes(data, ServiceException) \/ includes(data, ErrorWord)
         THEN [threw |-> TRUE, error |-> WmsReturnedError(params.bbox),
               value |-> Undefined]
         ELSE [threw |-> TRUE, error |-> NotAValidPdf, value |-> Undefined]
    ELSE [threw |-> FALSE, error |-> Undefined, value |-> data]

\* downloadCadastralPDF once the response bytes are there
pdfOutcome(params, data) ==
    IF Len(data) < 5 \/ slice(data, 0, 5) # PdfMagic
    THEN LET text == slice(data, 0, 500) IN
         IF includes(text, ServiceException) \/ includes(text, ErrorWord)
         THEN [threw |-> TRUE, error |-> WmsReturnedError(params.bbox),
               value |-> Undefined]
         ELSE [threw |-> TRUE, error |-> NotAValidPdf, value |-> Undefined]
    ELSE [threw |-> FALSE, error |-> Undefined, value |-> data]

(***************************************************************************)
(* utils/pdf-draw.ts.  An SVG path is the sequence of its commands; the    *)
(* page is the sequence of the drawSvgPath calls made on it.               *)
(***************************************************************************)
\* "M x -y", then "L x -y" for each further pixel, then "Z"
buildSvgPath(pixels) ==
    IF Len(pixels) = 0 THEN <<>>
    ELSE [k \in 1..Len(pixels) |->
             [ cmd |-> IF k = 1 THEN "M" ELSE "L",
               x |-> pixels[k][1],
               y |-> FNeg(pixels[k][2]) ]]
         \o << [cmd |-> "Z", x |-> Undefined, y |-> Undefined] >>

rgb(color) == [type |-> "RGB", red |-> color.r, green |-> color.g,
               blue |-> color.b]

\* variant: the last ring of the polygon is drawn
drawPolygon_lastRing(pg, rings, t, color, fillOpacity, borderWidth) ==
    IF Len(rings) = 0 \/ Len(rings[Len(rings)]) < 3 THEN pg
    ELSE LET outerRing == rings[Len(rings)]
             pixels == [k \in 1..Len(outerRing) |->
                           toPixel(t, outerRing[k][1], outerRing[k][2])]
         IN  Append(pg, [ path |-> buildSvgPath(pixels),
                          x |-> 0, y |-> 0,
                          color |-> rgb(color),
                          opacity |-> fillOpacity,
                          borderColor |-> rgb(color),
                          borderWidth |-> borderWidth,
                          borderOpacity |-> 1 ])

\* the page after drawPolygon(page, rings, transform, ...)
drawPolygon(pg, rings, t, color, fillOpacity, borderWidth) ==
    IF Len(rings) = 0 \/ Len(rings[1]) < 3 THEN pg
    ELSE LET outerRing == rings[1]
             pixels == [k \in 1..Len(outerRing) |->
                           toPixel(t, outerRing[k][1], outerRing[k][2])]
         IN  Append(pg, [ path |-> buildSvgPath(pixels),
                          x |-> 0, y |-> 0,
                          color |-> rgb(color),
                          opacity |-> fillOpacity,
                          borderColor |-> rgb(color),
                          borderWidth |-> borderWidth,
                          borderOpacity |-> 1 ])

\* the page after drawMultiPolygon(page, coordinates, transform, color,
\* fillOpacity = 0.2, borderWidth = 2)
RECURSIVE drawMultiPolygon(_, _, _, _, _, _)
drawMultiPolygon(pg, polygons, t, color, fillOpacityArg, borderWidthArg) ==
    LET fillOpacity == IF fillOpacityArg = Undefined THEN Frac(2, 10)
                       ELSE fillOpacityArg
        borderWidth == IF borderWidthArg = Undefined THEN Num(2)
                       ELSE borderWidthArg
    IN  IF polygons = <<>> THEN pg
        ELSE drawMultiPolygon(
                 drawPolygon(pg, Head(polygons), t, color, fillOpacity,
                             borderWidth),
                 Tail(polygons), t, color, fillOpacity, borderWidth)

(***************************************************************************)
(* level2.ts, level3.ts, level4.ts: the run after the parcels are fetched. *)
(* The legend, the summary table and the outlines of the building          *)
(* intersections (geometries computed by turf) are not part of the model.  *)
(***************************************************************************)
COLORS ==
    << [r |-> Num(1), g |-> Num(0), b |-> Num(0)],
       [r |-> Num(0), g |-> Frac(4, 10), b |-> Num(1)],
       [r |-> Num(0), g |-> Frac(7, 10), b |-> Frac(2, 10)],
       [r |-> Num(1), g |-> Frac(5, 10), b |-> Num(0)],
       [r |-> Frac(6, 10), g |-> Num(0), b |-> Frac(8, 10)],
       [r |-> Num(0), g |-> Frac(8, 10), b |-> Frac(8, 10)],
       [r |-> Frac(8, 10), g |-> Frac(8, 10), b |-> Num(0)],
       [r |-> Num(1), g |-> Num(0), b |-> Frac(6, 10)] >>

\* the margin handed to expandBbox: 0.5 in level 2, 0.15 in levels 3 and 4
marginOf(level) == IF level = 2 THEN Frac(5, 10) ELSE Frac(15, 100)

\* the parameters of downloadCadastralPDF: { bbox } in level 2,
\* { bbox, width: 1684, height: 1190 } in levels 3 and 4
downloadParamsOf(level, box) ==
    IF level = 2
    THEN [bbox |-> box, width |-> Undefined, height |-> Undefined]
    ELSE [bbox |-> box, width |-> Num(1684), height |-> Num(1190)]

\* features.flatMap((f) => f.geometry.coordinates)
allCoordsOf(features) ==
    Flat([k \in 1..Len(features) |-> features[k].geometry.coordinates])

\* variant: the bbox of the first parcel only
globalBboxOf_firstParcel(level, features) ==
    expandBbox(computeBbox(features[1].geometry.coordinates), marginOf(level))

\* expandBbox(computeBbox(allCoords), margin)
globalBboxOf(level, features) ==
    expandBbox(computeBbox(allCoordsOf(features)), marginOf(level))

\* the municipality whose buildings are handed to computeBuiltArea for the
\* k-th parcel: fetchBatiments(parseParcelId(parcelIds[0]).codeInsee)
batimentsCodeOf(parcelIds, k) == parseParcelId(parcelIds[1]).value.codeInsee

\* the page after the parcels are drawn
RECURSIVE drawParcels(_, _, _, _, _)
drawParcels(pg, level, features, k, t) ==
    IF k > Len(features) THEN pg
    ELSE drawParcels(
             drawMultiPolygon(pg, features[k].geometry.coordinates, t,
                 IF level = 2 THEN COLORS[1] ELSE COLORS[((k - 1) % 8) + 1],
                 IF level = 4 THEN Frac(15, 100) ELSE Frac(2, 10),
                 Num(2)),
             level, features, k + 1, t)

(***************************************************************************)
(* Inputs.                                                                 *)
(***************************************************************************)
GeoPositions == {<<Num(0), Num(1)>>, <<Num(1), Num(-1)>>, <<Num(2), Num(0)>>}
\* the sequences of k rings that hold n positions in all
RECURSIVE RingSeqs(_, _)
RingSeqs(k, n) ==
    IF k = 0 THEN (IF n = 0 THEN {<<>>} ELSE {})
    ELSE UNION {{<<r>> \o rest : r \in [1..m -> GeoPositions],
                                 rest \in RingSeqs(k - 1, n - m)} : m \in 0..n}

\* the polygons (sequences of rings) that hold n positions
Polygons(n) == UNION {RingSeqs(k, n) : k \in 0..MaxRings}

\* the sequences of k polygons that hold n positions in all
RECURSIVE PolygonSeqs(_, _)
PolygonSeqs(k, n) ==
    IF k = 0 THEN (IF n = 0 THEN {<<>>} ELSE {})
    ELSE UNION {{<<q>> \o rest : q \in Polygons(m),
                                 rest \in PolygonSeqs(k - 1, n - m)} : m \in 0..n}

CoordinateInputs ==
    UNION {PolygonSeqs(k, n) : k \in 0..MaxPolys, n \in 0..MaxPoints}

Degrees == {Num(0), Num(1), Num(2)}
BBoxInputs == (Degrees \X Degrees \X Degrees \X Degrees)
                 \cup {<<Num(0), Num(0), Num(10), Num(20)>>,
                       <<Num(0), Num(0), Num(20), Num(10)>>,
                       <<Num(-10), Num(-20), Num(-5), Num(-15)>>}
MarginInputs == {Undefined, Num(0), Frac(1, 10), Frac(3, 20), Frac(1, 2),
                 Num(1), Frac(-1, 4), Frac(-1, 2), Num(-1)}
PageInputs == {<<Num(1), Num(1)>>, <<Num(2), Num(1)>>, <<Num(1), Num(4)>>,
               <<Num(800), Num(400)>>}
OverwrittenBbox == <<Num(5), Num(5), Num(7), Num(9)>>
LonLatInputs == (Degrees \X Degrees)
                   \cup {<<Num(10), Num(5)>>, <<Num(20), Num(10)>>}

ParcelInputs == {[cells |-> S, fault |-> "none"] : S \in SUBSET Cells \ {{}}}
\* buildings of every footprint on which nothing fails, and one building
\* covering the whole plane for each failure
BuildingInputs ==
    {[cells |-> S, fault |-> "none"] : S \in SUBSET Cells \ {{}}}
    \cup {[cells |-> Cells, fault |-> f] : f \in Faults \ {"none"}}
NoFeature == [cells |-> {}, fault |-> "none"]
ContenanceInputs == {Undefined, Num(-1), Num(0), Num(1), Num(4)}
NoSurface == [ totalArea |-> NaN, builtArea |-> NaN, unbuiltArea |-> NaN,
               occupancyRate |-> NaN ]

\* parcel identifiers: two parcels of one municipality, a parcel of another
\* municipality, fourteen arbitrary characters, and three wrong lengths
Id33063000BW0124 ==
    <<"3", "3", "0", "6", "3", "0", "0", "0", "B", "W", "0", "1", "2", "4">>
Id33063000BW0125 ==
    <<"3", "3", "0", "6", "3", "0", "0", "0", "B", "W", "0", "1", "2", "5">>
Id75056000AB0001 ==
    <<"7", "5", "0", "5", "6", "0", "0", "0", "A", "B", "0", "0", "0", "1">>
IdArbitrary ==
    <<"a", " ", "c", "?", "e", "f", "-", "h", "i", "j", "k", "l", "m", "n">>
IdShort == SubSeq(Id33063000BW0124, 1, 13)
IdLong == Id33063000BW0124 \o <<"0">>
IdEmpty == <<>>

ParcelIdInputs == {Id33063000BW0124, Id33063000BW0125, Id75056000AB0001,
                   IdArbitrary, IdShort, IdLong, IdEmpty}
FetchIdInputs == {Id33063000BW0124, Id33063000BW0125, Id75056000AB0001,
                  IdShort}

\* what the server may hold: features with a Polygon (with a hole), a
\* MultiPolygon, no properties, and two features bearing the same id
OuterRing == << <<Num(0), Num(0)>>, <<Num(2), Num(0)>>, <<Num(0), Num(2)>>,
                <<Num(0), Num(0)>> >>
HoleRing == << <<Num(1), Num(1)>> >>
PolygonFeature ==
    [ properties |-> [id |-> Id33063000BW0124, contenance |-> 4],
      geometry |-> [type |-> "Polygon",
                    coordinates |-> <<OuterRing, HoleRing>>] ]
MultiPolygonFeature ==
    [ properties |-> [id |-> Id33063000BW0125, contenance |-> 1],
      geometry |-> [type |-> "MultiPolygon",
                    coordinates |-> << <<OuterRing>>, <<HoleRing>> >>] ]
BareFeature ==
    [ properties |-> Undefined,
      geometry |-> [type |-> "Polygon", coordinates |-> <<OuterRing>>] ]
HomonymFeature ==
    [ properties |-> [id |-> Id33063000BW0124, contenance |-> 2],
      geometry |-> [type |-> "MultiPolygon",
                    coordinates |-> << <<OuterRing>> >>] ]
CollectionInputs ==
    { [features |-> <<BareFeature, PolygonFeature, MultiPolygonFeature>>],
      [features |-> <<HomonymFeature, PolygonFeature>>] }

\* how a request may end: an AxiosError, bytes that do not decode, JSON
\* without a features array, or a collection
HttpErrorInputs ==
    { [code |-> "ECONNABORTED", response |-> FALSE, status |-> "",
       message |-> "timeout of 60000ms exceeded"],
      [code |-> "ERR_BAD_REQUEST", response |-> TRUE, status |-> "404",
       message |-> "Request failed with status code 404"] }
ResponseInputs ==
    {[kind |-> "error", err |-> e, collection |-> Undefined] :
         e \in HttpErrorInputs}
    \cup {[kind |-> k, err |-> Undefined, collection |-> Undefined] :
              k \in {"corrupt", "notGeoJSON"}}
    \cup {[kind |-> "collection", err |-> Undefined, collection |-> c] :
              c \in CollectionInputs}

\* bounding boxes handed to downloadCadastralPDF: those of expandBbox, and
\* boxes with values that are not finite
PdfBboxInputs ==
    BBoxInputs \cup {<<NaN, Num(0), Num(1), Num(1)>>,
                     <<Num(0), Num(0), NaN, NaN>>,
                     <<PosInf, PosInf, NegInf, NegInf>>,
                     <<NegInf, Num(0), PosInf, Num(1)>>}
\* width and height: omitted, given, given as 0, one of them omitted
PdfSizeInputs == {<<Undefined, Undefined>>, <<Num(1684), Num(1190)>>,
                  <<Num(0), Num(0)>>, <<Num(800), Undefined>>}
DownloadParamsInputs ==
    {[bbox |-> b, width |-> s[1], height |-> s[2]] :
        b \in PdfBboxInputs, s \in PdfSizeInputs}

\* response bodies: PDF files, truncated magic, error documents, other
\* text, and error words at or beyond byte 500
Filler(n) == [k \in 1..n |-> "x"]
PdfDataInputs ==
    { <<"%", "P", "D", "F", "-", "1", ".", "4">>, <<"%", "P", "D", "F", "-", "E", "r", "r", "o", "r">>, <<"%", "P", "D", "F">>, <<>>, <<"<", "S", "e", "r", "v", "i", "c", "e", "E", "x", "c", "e", "p", "t", "i", "o", "n", ">">>, <<"E", "r", "r", "o", "r", " ", "5", "0", "0">>, <<"e", "r", "r", "o", "r">>, <<"h", "e", "l", "l", "o">>,
      Filler(495) \o ErrorWord,
      Filler(497) \o ErrorWord,
      Filler(500) \o ServiceException }
WmsResponseInputs ==
    {[kind |-> "error", err |-> e, data |-> Undefined] : e \in HttpErrorInputs}
    \cup {[kind |-> "data", err |-> Undefined, data |-> d] :
              d \in PdfDataInputs}

NoResponse == [kind |-> "none", err |-> Undefined, data |-> Undefined]
NoDownload == [ pc |-> "idle", params |-> Undefined, response |-> NoResponse,
                error |-> Undefined, value |-> Undefined ]

\* polygons handed to drawMultiPolygon: a ring of 4 points, the same with a
\* hole, a triangle, rings of 2 and 0 points, no ring, and a short outer ring
\* with a long hole
Triangle == << <<Num(0), Num(0)>>, <<Num(2), Num(1)>>, <<Num(1), Num(2)>> >>
Segment == << <<Num(1), Num(1)>>, <<Num(2), Num(2)>> >>
DrawPolygonInputs ==
    { <<OuterRing>>, <<OuterRing, HoleRing>>, <<Triangle, OuterRing>>,
      <<Segment>>, <<Segment, OuterRing>>, << <<>> >>, <<>> }
DrawTransformInputs ==
    {createGeoToPdfTransform(b, Num(500), Num(500)) :
        b \in {<<Num(0), Num(0), Num(10), Num(10)>>,
               <<Num(0), Num(0), Num(2), Num(4)>>,
               <<Num(0), Num(0), Num(0), Num(4)>>}}
\* COLORS[0], with the default style and with a style of its own
Red == [r |-> Num(1), g |-> Num(0), b |-> Num(0)]
DrawStyleInputs == {<<Undefined, Undefined>>, <<Frac(1, 2), Num(1)>>}

\* parcels of a run: two ordinary parcels of one municipality, one of
\* another municipality, a parcel whose points share one longitude, one whose
\* points share one latitude, and one without coordinates
RunFeature(id, coords) ==
    [ properties |-> [id |-> id, contenance |-> 4],
      geometry |-> [type |-> "MultiPolygon", coordinates |-> coords] ]
MeridianRing == << <<Num(1), Num(0)>>, <<Num(1), Num(1)>>, <<Num(1), Num(2)>> >>
ParallelRing == << <<Num(0), Num(1)>>, <<Num(1), Num(1)>>, <<Num(2), Num(1)>> >>
FarRing == << <<Num(3), Num(3)>>, <<Num(4), Num(3)>>, <<Num(4), Num(5)>> >>
RunFeatureInputs ==
    { RunFeature(Id33063000BW0124, << <<OuterRing, HoleRing>> >>),
      RunFeature(Id75056000AB0001, << <<FarRing>> >>),
      RunFeature(Id33063000BW0125, << <<MeridianRing>> >>),
      RunFeature(Id75056000AB0001, << <<ParallelRing>> >>),
      RunFeature(Id33063000BW0125, <<>>) }
\* the sizes of the page of the downloaded plan
RunPageInputs == {<<Num(1), Num(4)>>, <<Num(800), Num(400)>>}
\* how the request of fetchBatiments may end
BatimentsResponseInputs ==
    { [kind |-> "collection", err |-> Undefined],
      [kind |-> "corrupt", err |-> Undefined],
      [kind |-> "error",
       err |-> [code |-> "ECONNABORTED", response |-> FALSE, status |-> "",
                message |-> "timeout of 60000ms exceeded"]] }
MaxParcels == 2
\* level 2 takes one parcel, level 3 at least two, level 4 at least one
RunInputs(level) ==
    IF level = 2 THEN [1..1 -> RunFeatureInputs]
    ELSE IF level = 3
    THEN UNION {[1..n -> RunFeatureInputs] : n \in 2..MaxParcels}
    ELSE UNION {[1..n -> RunFeatureInputs] : n \in 1..MaxParcels}

MaxCalls == 2

NoParse == [threw |-> FALSE, error |-> Undefined, value |-> Undefined]
NoCache == [c \in {} |-> 0]
NoBox == <<>>
NoTransform == [ minLon |-> NaN, minLat |-> NaN, geoWidth |-> NaN,
                 geoHeight |-> NaN, pageWidth |-> NaN, pageHeight |-> NaN,
                 bboxLambert |-> <<>> ]

NoDraw == [ coordinates |-> <<>>, transform |-> NoTransform ]

\* the error of PDFDocument.load (its text is pdf-lib's, not this program's)
PdfLoadError == [text |-> <<"PDFDocument.load">>, bbox |-> Undefined]

NoRun == [ level |-> 0, pc |-> "idle", parcelIds |-> <<>>, features |-> <<>>,
           batiments |-> Undefined, globalBbox |-> NoBox,
           pageSize |-> Undefined, transform |-> NoTransform,
           builtAgainst |-> <<>>, error |-> Undefined ]

(***************************************************************************)
(* Behaviour: a caller invokes the exported functions one after another.   *)
(***************************************************************************)
Init ==
    /\ op = "start"
    /\ proj \in ProjScales
    /\ coordinates = <<>>
    /\ bbox = NoBox
    /\ expandArgs = <<>>
    /\ expanded = NoBox
    /\ transformArgs = <<>>
    /\ geoBboxArray = <<>>
    /\ transform = NoTransform
    /\ pixelArgs = <<>>
    /\ pixel = <<>>
    /\ parcelFeature = NoFeature
    /\ buildings = <<>>
    /\ areaPc = "idle"
    /\ i = 0
    /\ builtArea = 0
    /\ buildingIntersections = <<>>
    /\ surfaceData = NoSurface
    /\ parseArg = <<>>
    /\ parsed = NoParse
    /\ calls = <<>>
    /\ events = <<>>
    /\ parcellesCache = NoCache
    /\ heap = <<>>
    /\ download = NoDownload
    /\ wmsRequests = <<>>
    /\ drawArgs = NoDraw
    /\ page = <<>>
    /\ run = NoRun

ComputeBbox ==
    /\ op = "start"
    \* c ranges over CoordinateInputs
    /\ \E k \in 0..MaxPolys, n \in 0..MaxPoints : \E c \in PolygonSeqs(k, n) :
        /\ op' = "computeBbox"
        /\ coordinates' = c
        /\ bbox' = computeBbox(c)
        /\ expandArgs' = <<>>
        /\ expanded' = NoBox
        /\ transformArgs' = <<>>
        /\ geoBboxArray' = <<>>
        /\ transform' = NoTransform
        /\ pixelArgs' = <<>>
        /\ pixel' = <<>>
        /\ UNCHANGED <<run, drawVars, pdfVars, fetchVars, proj, areaVars>>

ExpandBbox ==
    /\ op = "start"
    /\ \E b \in BBoxInputs, m \in MarginInputs :
        /\ op' = "expandBbox"
        /\ expandArgs' = <<b, m>>
        /\ expanded' = expandBbox(b, m)
        /\ coordinates' = <<>>
        /\ bbox' = NoBox
        /\ transformArgs' = <<>>
        /\ geoBboxArray' = <<>>
        /\ transform' = NoTransform
        /\ pixelArgs' = <<>>
        /\ pixel' = <<>>
        /\ UNCHANGED <<run, drawVars, pdfVars, fetchVars, proj, areaVars>>

CreateGeoToPdfTransform ==
    /\ op = "start"
    /\ \E b \in BBoxInputs, p \in PageInputs :
        /\ op' = "createGeoToPdfTransform"
        /\ transformArgs' = <<b, p[1], p[2]>>
        /\ geoBboxArray' = b
        /\ transform' = createGeoToPdfTransform(b, p[1], p[2])
        /\ coordinates' = <<>>
        /\ bbox' = NoBox
        /\ expandArgs' = <<>>
        /\ expanded' = NoBox
        /\ pixelArgs' = <<>>
        /\ pixel' = <<>>
        /\ UNCHANGED <<run, drawVars, pdfVars, fetchVars, proj, areaVars>>

ToPixel ==
    /\ op \in {"createGeoToPdfTransform", "toPixel"}
    /\ \E q \in LonLatInputs :
        /\ op' = "toPixel"
        /\ pixelArgs' = q
        /\ pixel' = toPixel(transform, q[1], q[2])
        /\ UNCHANGED <<run, drawVars, pdfVars, fetchVars, proj, coordinates, bbox, expandArgs, expanded,
                       transformArgs, geoBboxArray, transform, areaVars>>

\* the caller overwrites the elements of the array it handed to
\* createGeoToPdfTransform
OverwriteGeoBbox ==
    /\ op \in {"createGeoToPdfTransform", "toPixel"}
    /\ geoBboxArray # OverwrittenBbox
    /\ geoBboxArray' = OverwrittenBbox
    /\ UNCHANGED <<run, drawVars, pdfVars, fetchVars, op, proj, coordinates, bbox, expandArgs, expanded,
                   transformArgs, transform, pixelArgs, pixel, areaVars>>

\* computeBuiltArea is entered: builtArea = 0, empty result list
ComputeBuiltAreaEnter ==
    /\ op = "start"
    /\ \E p \in ParcelInputs, bs \in SeqUpTo(BuildingInputs, MaxBuildings) :
        /\ op' = "computeBuiltArea"
        /\ parcelFeature' = p
        /\ buildings' = bs
        /\ areaPc' = "loop"
        /\ i' = 1
        /\ builtArea' = 0
        /\ buildingIntersections' = <<>>
        /\ surfaceData' = NoSurface
        /\ UNCHANGED <<run, drawVars, pdfVars, fetchVars, proj, geoVars>>

\* for (const building of buildings) { try { ... } catch { } }
ComputeBuiltAreaLoop ==
    /\ areaPc = "loop"
    /\ i <= Len(buildings)
    /\ LET acc == loopBody([builtArea |-> builtArea,
                            buildingIntersections |-> buildingIntersections],
                           parcelFeature, buildings[i])
       IN  /\ builtArea' = acc.builtArea
           /\ buildingIntersections' = acc.buildingIntersections
    /\ i' = i + 1
    /\ UNCHANGED <<run, drawVars, pdfVars, fetchVars, op, proj, geoVars, parcelFeature, buildings, areaPc,
                   surfaceData>>

\* return { builtArea, buildingIntersections }
ComputeBuiltAreaReturn ==
    /\ areaPc = "loop"
    /\ i > Len(buildings)
    /\ areaPc' = "done"
    /\ UNCHANGED <<run, drawVars, pdfVars, fetchVars, op, proj, geoVars, parcelFeature, buildings, i,
                   builtArea, buildingIntersections, surfaceData>>

\* generateLevel4, after computeBuiltArea returned: the statistics of the
\* parcel are derived and pushed
PushSurfaceData ==
    /\ areaPc = "done"
    /\ \E contenance \in ContenanceInputs :
        /\ surfaceData' = surfaceRecord(
                              totalAreaOf(contenance, parcelFeature), builtArea)
        /\ areaPc' = "pushed"
        /\ UNCHANGED <<run, drawVars, pdfVars, fetchVars, op, proj, geoVars, parcelFeature, buildings, i,
                       builtArea, buildingIntersections>>

ParseParcelId ==
    /\ op = "start"
    /\ \E id \in ParcelIdInputs :
        /\ op' = "parseParcelId"
        /\ parseArg' = id
        /\ parsed' = parseParcelId(id)
        /\ UNCHANGED <<run, drawVars, pdfVars, proj, geoVars, areaVars, calls, events,
                       parcellesCache, heap>>

\* fetchParcelGeometry(id) up to its first suspension: parseParcelId, then
\* fetchCommuneParcelles up to the cached collection or to axios.get
FetchParcelGeometryCall ==
    /\ op \in {"start", "fetchParcelGeometry"}
    /\ Len(calls) < MaxCalls
    /\ \E id \in FetchIdInputs :
        LET p == parseParcelId(id)
            k == Len(calls) + 1
            codeInsee == p.value.codeInsee
            call == [ id |-> id, pc |-> "http", codeInsee |-> Undefined,
                      collection |-> 0, feature |-> Undefined,
                      error |-> Undefined ]
        IN
        /\ op' = "fetchParcelGeometry"
        /\ IF p.threw
           THEN /\ calls' = Append(calls, [call EXCEPT !.pc = "rejected",
                                                       !.error = p.error])
                /\ events' = events
           ELSE IF codeInsee \in DOMAIN parcellesCache
           THEN /\ calls' = Append(calls,
                       [call EXCEPT !.pc = "resolved",
                                    !.codeInsee = codeInsee,
                                    !.collection = parcellesCache[codeInsee]])
                /\ events' = events \o << <<k, "cache.has", codeInsee>>,
                                          <<k, "cache.get", codeInsee>> >>
           ELSE /\ calls' = Append(calls, [call EXCEPT !.codeInsee = codeInsee])
                /\ events' = events \o << <<k, "cache.has", codeInsee>>,
                                          <<k, "axios.get", codeInsee>> >>
        /\ UNCHANGED <<run, drawVars, pdfVars, proj, geoVars, areaVars, parseArg, parsed,
                       parcellesCache, heap>>

\* the request of call k ends: the rest of fetchCommuneParcelles runs
HttpRespond ==
    \E k \in DOMAIN calls :
        /\ calls[k].pc = "http"
        /\ \E response \in ResponseInputs :
            LET codeInsee == calls[k].codeInsee IN
            IF response.kind = "error"
            THEN /\ calls' = [calls EXCEPT
                       ![k].pc = "rejected",
                       ![k].error = formatHttpError(response.err,
                                        DownloadingParcels(codeInsee))]
                 /\ UNCHANGED <<events, parcellesCache, heap>>
            ELSE IF response.kind = "corrupt"
            THEN /\ calls' = [calls EXCEPT
                       ![k].pc = "rejected",
                       ![k].error = UnableToDecode(codeInsee)]
                 /\ UNCHANGED <<events, parcellesCache, heap>>
            ELSE IF response.kind = "notGeoJSON"
            THEN /\ calls' = [calls EXCEPT
                       ![k].pc = "rejected",
                       ![k].error = InvalidParcelData(codeInsee)]
                 /\ UNCHANGED <<events, parcellesCache, heap>>
            ELSE /\ heap' = Append(heap, response.collection)
                 /\ parcellesCache' =
                        cacheSet(parcellesCache, codeInsee, Len(heap) + 1)
                 /\ events' = Append(events, <<k, "cache.set", codeInsee>>)
                 /\ calls' = [calls EXCEPT ![k].pc = "resolved",
                                           ![k].collection = Len(heap) + 1]
        /\ UNCHANGED <<run, drawVars, pdfVars, op, proj, geoVars, areaVars, parseArg, parsed>>

\* fetchParcelGeometry after `await fetchCommuneParcelles(codeInsee)`
FetchParcelGeometryResume ==
    \E k \in DOMAIN calls :
        /\ calls[k].pc = "resolved"
        /\ LET collection == calls[k].collection
               features == heap[collection].features
               n == find(features, calls[k].id)
           IN
           IF n = 0
           THEN /\ calls' = [calls EXCEPT
                      ![k].pc = "rejected",
                      ![k].error = ParcelNotFound(calls[k].id,
                                                  calls[k].codeInsee)]
                /\ heap' = heap
           ELSE /\ heap' = [heap EXCEPT ![collection].features[n] =
                                            toMultiPolygon(features[n])]
                /\ calls' = [calls EXCEPT
                      ![k].pc = "returned",
                      ![k].feature = toMultiPolygon(features[n])]
        /\ UNCHANGED <<run, drawVars, pdfVars, op, proj, geoVars, areaVars, parseArg, parsed, events,
                       parcellesCache>>

\* downloadCadastralPDF(params) up to its first suspension: the bbox test,
\* then axios.get
StartDownload(params) ==
    IF isInvalidBbox(params.bbox)
    THEN /\ download' = [ pc |-> "rejected", params |-> params,
                          response |-> NoResponse,
                          error |-> InvalidBbox(params.bbox),
                          value |-> Undefined ]
         /\ wmsRequests' = wmsRequests
    ELSE /\ download' = [ pc |-> "http", params |-> params,
                          response |-> NoResponse,
                          error |-> Undefined, value |-> Undefined ]
         /\ wmsRequests' = Append(wmsRequests, wmsRequest(params))

DownloadCadastralPDFCall ==
    /\ op = "start"
    /\ \E params \in DownloadParamsInputs :
        /\ op' = "downloadCadastralPDF"
        /\ StartDownload(params)
        /\ UNCHANGED <<run, drawVars, proj, geoVars, areaVars, fetchVars>>

\* the WMS request ends: the rest of downloadCadastralPDF runs
WmsRespond ==
    /\ download.pc = "http"
    /\ \E response \in WmsResponseInputs :
        IF response.kind = "error"
        THEN download' = [download EXCEPT
                 !.pc = "rejected",
                 !.response = response,
                 !.error = [ text |-> formatHttpError(response.err,
                                 <<"Downloading cadastral plan via WMS">>),
                             bbox |-> Undefined ]]
        ELSE LET r == pdfOutcome(download.params, response.data) IN
             download' = [download EXCEPT
                 !.pc = IF r.threw THEN "rejected" ELSE "returned",
                 !.response = response,
                 !.error = r.error,
                 !.value = r.value]
    /\ UNCHANGED <<run, drawVars, op, proj, geoVars, areaVars, fetchVars, wmsRequests>>

DrawMultiPolygon ==
    /\ op = "start"
    /\ \E c \in SeqUpTo(DrawPolygonInputs, MaxPolys),
          t \in DrawTransformInputs, style \in DrawStyleInputs :
        /\ op' = "drawMultiPolygon"
        /\ drawArgs' = [coordinates |-> c, transform |-> t]
        /\ page' = drawMultiPolygon(page, c, t, Red, style[1], style[2])
        /\ UNCHANGED <<run, proj, geoVars, areaVars, fetchVars, pdfVars>>

\* main of level 2 and 3, generateLevel4: from the fetched parcels to the
\* request for the plan
RunLevel ==
    /\ op = "start"
    /\ \E level \in {2, 3, 4}, batiments \in BatimentsResponseInputs :
        /\ level = 4 \/ batiments.kind = "collection"
        /\ \E features \in RunInputs(level) :
            LET parcelIds == [k \in 1..Len(features) |->
                                 features[k].properties.id]
                codeInsee == batimentsCodeOf(parcelIds, 1)
                globalBbox == globalBboxOf(level, features)
                started == [ NoRun EXCEPT
                               !.level = level,
                               !.parcelIds = parcelIds,
                               !.features = features ]
            IN
            /\ op' = "main"
            /\ IF batiments.kind # "collection"
               THEN /\ run' = [ started EXCEPT
                         !.pc = "failed",
                         !.error =
                           [ text |-> IF batiments.kind = "error"
                                      THEN formatHttpError(batiments.err,
                                               DownloadingBuildings(codeInsee))
                                      ELSE UnableToDecodeBuildings(codeInsee),
                             bbox |-> Undefined ] ]
                    /\ UNCHANGED pdfVars
               ELSE /\ run' = [ started EXCEPT
                                  !.pc = "download",
                                  !.batiments = IF level = 4 THEN codeInsee
                                                ELSE Undefined,
                                  !.globalBbox = globalBbox ]
                    /\ StartDownload(downloadParamsOf(level, globalBbox))
            /\ UNCHANGED <<proj, geoVars, areaVars, fetchVars, drawVars>>

\* the run after `await downloadCadastralPDF(...)`: the page of the plan is
\* read, the transform is built and the parcels are drawn; in level 4 the
\* built area of each parcel is computed
RunResume ==
    /\ run.pc = "download"
    /\ download.pc \in {"returned", "rejected"}
    /\ IF download.pc = "rejected"
       THEN /\ run' = [run EXCEPT !.pc = "failed", !.error = download.error]
            /\ page' = page
       ELSE \E size \in RunPageInputs, loaded \in BOOLEAN :
               LET t == createGeoToPdfTransform(run.globalBbox,
                                                size[1], size[2])
               IN
               IF ~loaded
               THEN \* PDFDocument.load throws on bytes it cannot parse
                    /\ run' = [ run EXCEPT !.pc = "failed",
                                           !.error = PdfLoadError ]
                    /\ page' = page
               ELSE
               /\ run' = [ run EXCEPT
                             !.pc = "done",
                             !.pageSize = size,
                             !.transform = t,
                             !.builtAgainst =
                                 IF run.level = 4
                                 THEN [k \in 1..Len(run.features) |->
                                          batimentsCodeOf(run.parcelIds, k)]
                                 ELSE <<>> ]
               /\ page' = drawParcels(page, run.level, run.features, 1, t)
    /\ UNCHANGED <<op, proj, geoVars, areaVars, fetchVars, pdfVars, drawArgs>>

Next ==
    \/ ComputeBbox
    \/ ExpandBbox
    \/ CreateGeoToPdfTransform
    \/ ToPixel
    \/ OverwriteGeoBbox
    \/ ComputeBuiltAreaEnter
    \/ ComputeBuiltAreaLoop
    \/ ComputeBuiltAreaReturn
    \/ PushSurfaceData
    \/ ParseParcelId
    \/ FetchParcelGeometryCall
    \/ HttpRespond
    \/ FetchParcelGeometryResume
    \/ DownloadCadastralPDFCall
    \/ WmsRespond
    \/ DrawMultiPolygon
    \/ RunLevel
    \/ RunResume

Spec == Init /\ [][Next]_vars

(***************************************************************************)
(* Properties.                                                             *)
(***************************************************************************)
\* the positions of a coordinate structure, whatever ring or polygon holds them
PointsOf(c) ==
    {c[a][b][k] : <<a, b, k>> \in
        {t \in (1..MaxPolys) \X (1..MaxRings) \X (1..MaxPoints) :
            /\ t[1] <= Len(c)
            /\ t[2] <= Len(c[t[1]])
            /\ t[3] <= Len(c[t[1]][t[2]])}}

\* the BoundingBox of the data model: finite, minLon <= maxLon, minLat <= maxLat
IsBoundingBox(b) ==
    /\ \A k \in 1..4 : IsFinite(b[k])
    /\ FLe(b[1], b[3])
    /\ FLe(b[2], b[4])

\* box a contains box b
Contains(a, b) ==
    /\ FLe(a[1], b[1])
    /\ FLe(a[2], b[2])
    /\ FLe(b[3], a[3])
    /\ FLe(b[4], a[4])

\* C1: when the structure passed to computeBbox holds at least one point, the
\* returned box has minLon <= maxLon and minLat <= maxLat and every input
\* point lies inside it (bounds included).
C1_BboxContainsPoints ==
    (op = "computeBbox" /\ PointsOf(coordinates) # {}) =>
        /\ FLe(bbox[1], bbox[3])
        /\ FLe(bbox[2], bbox[4])
        /\ \A p \in PointsOf(coordinates) :
              /\ FLe(bbox[1], p[1]) /\ FLe(p[1], bbox[3])
              /\ FLe(bbox[2], p[2]) /\ FLe(p[2], bbox[4])

\* two polygons, each holding one point, apart on both axes
C1_Witness ==
    /\ op = "computeBbox"
    /\ Len(coordinates) = 2
    /\ Len(coordinates[1]) >= 1
    /\ Len(coordinates[1][1]) = 1
    /\ Len(coordinates[2]) >= 1
    /\ Len(coordinates[2][1]) = 1
    /\ FLt(bbox[1], bbox[3])
    /\ FLt(bbox[2], bbox[4])

\* C2: each of the four values returned by computeBbox is the minimum (or
\* maximum) of that coordinate over the points of every ring of every
\* polygon: it is attained by some input point and no input point is beyond it.
C2_BboxIsExactMinMax ==
    (op = "computeBbox" /\ PointsOf(coordinates) # {}) =>
        LET P == PointsOf(coordinates) IN
        /\ \E p \in P : p[1] = bbox[1] /\ \A q \in P : FLe(p[1], q[1])
        /\ \E p \in P : p[2] = bbox[2] /\ \A q \in P : FLe(p[2], q[2])
        /\ \E p \in P : p[1] = bbox[3] /\ \A q \in P : FLe(q[1], p[1])
        /\ \E p \in P : p[2] = bbox[4] /\ \A q \in P : FLe(q[2], p[2])

\* the minimum longitude and the maximum latitude come from a hole ring only
C2_Witness ==
    /\ op = "computeBbox"
    /\ Len(coordinates) >= 1
    /\ Len(coordinates[1]) = 2
    /\ Len(coordinates[1][1]) = 1
    /\ Len(coordinates[1][2]) = 1
    /\ coordinates[1][2][1][1] = bbox[1]
    /\ FLt(bbox[1], coordinates[1][1][1][1])
    /\ coordinates[1][2][1][2] = bbox[4]
    /\ FLt(coordinates[1][1][1][2], bbox[4])

\* C3: expandBbox(bbox, m) = (minLon - dLon, minLat - dLat, maxLon + dLon,
\* maxLat + dLat) with dLon = (maxLon - minLon) * m and dLat = (maxLat -
\* minLat) * m; an omitted m is 0.1.
C3_ExpandFormula ==
    op = "expandBbox" =>
        LET b == expandArgs[1]
            m == IF expandArgs[2] = Undefined THEN Frac(1, 10)
                 ELSE expandArgs[2]
            dLon == FMul(FSub(b[3], b[1]), m)
            dLat == FMul(FSub(b[4], b[2]), m)
        IN  expanded = <<FSub(b[1], dLon), FSub(b[2], dLat),
                         FAdd(b[3], dLon), FAdd(b[4], dLat)>>

\* the default margin on the box [0, 0, 10, 20]: 1 on the longitude axis, 2 on
\* the latitude axis
C3_Witness ==
    /\ op = "expandBbox"
    /\ expandArgs = <<<<Num(0), Num(0), Num(10), Num(20)>>, Undefined>>
    /\ expanded = <<Num(-1), Num(-2), Num(11), Num(22)>>

\* C4: expandBbox(b, 0) = b, component for component.
C4_ZeroMarginIdentity ==
    (op = "expandBbox" /\ expandArgs[2] = Num(0)) => expanded = expandArgs[1]

C4_Witness ==
    /\ op = "expandBbox"
    /\ expandArgs[2] = Num(0)
    /\ FLt(expandArgs[1][1], expandArgs[1][3])
    /\ FLt(expandArgs[1][2], expandArgs[1][4])
    /\ expanded = expandArgs[1]

NumericMargins == MarginInputs \ {Undefined}

\* C5: for a bounding box b and margins 0 <= m1 <= m2, expandBbox(b, m2)
\* contains expandBbox(b, m1).
C5_ExpandMonotonic ==
    (/\ op = "expandBbox"
     /\ expandArgs[2] # Undefined
     /\ IsBoundingBox(expandArgs[1])
     /\ FLe(Num(0), expandArgs[2])) =>
        \A m1 \in NumericMargins :
            (FLe(Num(0), m1) /\ FLe(m1, expandArgs[2])) =>
                Contains(expanded, expandBbox(expandArgs[1], m1))

\* a margin above a smaller positive one, on a box of positive extent
C5_Witness ==
    /\ op = "expandBbox"
    /\ expandArgs[2] = Num(1)
    /\ IsBoundingBox(expandArgs[1])
    /\ FLt(expandArgs[1][1], expandArgs[1][3])
    /\ FLt(expandArgs[1][2], expandArgs[1][4])
    /\ FLt(expanded[1], expandBbox(expandArgs[1], Frac(1, 2))[1])
    /\ FLt(expandBbox(expandArgs[1], Frac(1, 2))[4], expanded[4])

\* C6 as stated: for a bounding box and any negative margin, the box returned
\* by expandBbox lies inside the input box and is itself a bounding box.
C6_NegativeMarginKeepsInvariant ==
    (/\ op = "expandBbox"
     /\ expandArgs[2] # Undefined
     /\ IsBoundingBox(expandArgs[1])
     /\ FLt(expandArgs[2], Num(0))) =>
        /\ Contains(expandArgs[1], expanded)
        /\ IsBoundingBox(expanded)

\* C6 amended: for a bounding box and a margin m with -1/2 <= m < 0, the box
\* returned by expandBbox lies inside the input box and is itself a bounding
\* box; for m < -1/2 the returned minima are not below the returned maxima
\* (the box is inverted on every axis of positive extent).
C6_ShrinkUpToHalf ==
    (/\ op = "expandBbox"
     /\ expandArgs[2] # Undefined
     /\ IsBoundingBox(expandArgs[1])
     /\ FLt(expandArgs[2], Num(0))) =>
        IF FLe(Frac(-1, 2), expandArgs[2])
        THEN /\ Contains(expandArgs[1], expanded)
             /\ IsBoundingBox(expanded)
        ELSE /\ FLe(expanded[3], expanded[1])
             /\ FLe(expanded[4], expanded[2])
             /\ (FLt(expandArgs[1][1], expandArgs[1][3])
                    => FLt(expanded[3], expanded[1]))
             /\ (FLt(expandArgs[1][2], expandArgs[1][4])
                    => FLt(expanded[4], expanded[2]))

\* a box of positive extent shrunk by a quarter on each side
C6_Witness ==
    /\ op = "expandBbox"
    /\ expandArgs[2] = Frac(-1, 4)
    /\ FLt(expandArgs[1][1], expanded[1])
    /\ FLt(expanded[1], expanded[3])
    /\ FLt(expanded[3], expandArgs[1][3])
    /\ FLt(expandArgs[1][2], expanded[2])
    /\ FLt(expanded[2], expanded[4])
    /\ FLt(expanded[4], expandArgs[1][4])

\* the arguments of the createGeoToPdfTransform call the transform comes from
GeoBboxArg == transformArgs[1]
PageWidthArg == transformArgs[2]
PageHeightArg == transformArgs[3]

PositiveExtent(b) == FLt(b[1], b[3]) /\ FLt(b[2], b[4])

\* C7: for a bbox of positive width and height, toPixel maps the min corner
\* to (0, 0), the max corner to (pageWidth, pageHeight) and the centre to
\* (pageWidth / 2, pageHeight / 2).
C7_CornersAndCentre ==
    (op = "toPixel" /\ PositiveExtent(GeoBboxArg)) =>
        LET b == GeoBboxArg
            centre == <<FDiv(FAdd(b[1], b[3]), Num(2)),
                        FDiv(FAdd(b[2], b[4]), Num(2))>>
        IN  /\ pixelArgs = <<b[1], b[2]>> => pixel = <<Num(0), Num(0)>>
            /\ pixelArgs = <<b[3], b[4]>>
                  => pixel = <<PageWidthArg, PageHeightArg>>
            /\ pixelArgs = centre
                  => pixel = <<FDiv(PageWidthArg, Num(2)),
                               FDiv(PageHeightArg, Num(2))>>

\* the centre of a box on a page that is not square
C7_Witness ==
    /\ op = "toPixel"
    /\ GeoBboxArg = <<Num(0), Num(0), Num(2), Num(2)>>
    /\ PageWidthArg # PageHeightArg
    /\ pixelArgs = <<Num(1), Num(1)>>
    /\ pixel = <<FDiv(PageWidthArg, Num(2)), FDiv(PageHeightArg, Num(2))>>

PageSides == {p[1] : p \in PageInputs} \cup {p[2] : p \in PageInputs}

\* C8: toPixel(lon, lat) = ((lon - minLon) / geoWidth * pageWidth,
\* (lat - minLat) / geoHeight * pageHeight); the x result is the same for
\* every latitude, latitude range and page height, the y result the same for
\* every longitude, longitude range and page width; the bbox [0, 0, 20, 10]
\* on an 800 by 400 page maps (10, 5) to (400, 200).
C8_PerAxisScaling ==
    op = "toPixel" =>
        LET b == GeoBboxArg
            lon == pixelArgs[1]
            lat == pixelArgs[2]
        IN  /\ pixel[1] = FMul(FDiv(FSub(lon, b[1]), FSub(b[3], b[1])),
                               PageWidthArg)
            /\ pixel[2] = FMul(FDiv(FSub(lat, b[2]), FSub(b[4], b[2])),
                               PageHeightArg)
            /\ \A lo \in Degrees, hi \in Degrees, side \in PageSides :
                  LET sameLon == createGeoToPdfTransform(
                                     <<b[1], lo, b[3], hi>>, PageWidthArg, side)
                      sameLat == createGeoToPdfTransform(
                                     <<lo, b[2], hi, b[4]>>, side, PageHeightArg)
                  IN  \A v \in Degrees :
                          /\ toPixel(sameLon, lon, v)[1] = pixel[1]
                          /\ toPixel(sameLat, v, lat)[2] = pixel[2]
            /\ (/\ b = <<Num(0), Num(0), Num(20), Num(10)>>
                /\ PageWidthArg = Num(800)
                /\ PageHeightArg = Num(400)
                /\ pixelArgs = <<Num(10), Num(5)>>)
                  => pixel = <<Num(400), Num(200)>>

C8_Witness ==
    /\ op = "toPixel"
    /\ GeoBboxArg = <<Num(0), Num(0), Num(20), Num(10)>>
    /\ PageWidthArg = Num(800)
    /\ PageHeightArg = Num(400)
    /\ pixelArgs = <<Num(10), Num(5)>>
    /\ pixel = <<Num(400), Num(200)>>

\* C9: bboxLambert is [x(min), y(min), x(max), y(max)], the projection of the
\* (minLon, minLat) corner followed by that of the (maxLon, maxLat) corner,
\* computed when the transform is built; toPixel returns the same values
\* whatever the projection yields.
C9_BboxLambert ==
    /\ op \in {"createGeoToPdfTransform", "toPixel"} =>
          LET b == GeoBboxArg
              lo == wgs84ToLambert93(b[1], b[2])
              hi == wgs84ToLambert93(b[3], b[4])
          IN  transform.bboxLambert = <<lo[1], lo[2], hi[1], hi[2]>>
    /\ op = "toPixel" =>
          \A s \in ProjScales :
              LET b == GeoBboxArg
                  t == [transform EXCEPT !.bboxLambert =
                            proj4(s, b[1], b[2]) \o proj4(s, b[3], b[4])]
              IN  toPixel(t, pixelArgs[1], pixelArgs[2]) = pixel

\* a transform over a box of positive extent whose four projected values differ
C9_Witness ==
    /\ op = "createGeoToPdfTransform"
    /\ PositiveExtent(GeoBboxArg)
    /\ GeoBboxArg[1] # GeoBboxArg[2]
    /\ Len(transform.bboxLambert) = 4
    /\ Cardinality(Range(transform.bboxLambert)) = 4
    /\ FLt(transform.bboxLambert[1], transform.bboxLambert[3])
    /\ FLt(transform.bboxLambert[2], transform.bboxLambert[4])

\* the indices of the buildings whose intersection with the parcel the
\* library returns, with its area, and is not empty
Intersecting ==
    {k \in 1..Len(buildings) :
        /\ buildings[k].fault = "none"
        /\ parcelFeature.cells \cap buildings[k].cells # {}}

RECURSIVE SumOver(_)
SumOver(K) ==
    IF K = {} THEN 0
    ELSE LET k == CHOOSE x \in K : TRUE
         IN  SumArea(parcelFeature.cells \cap buildings[k].cells)
                + SumOver(K \ {k})

\* C10: computeBuiltArea returns the sum of the areas of the non-empty
\* intersections of the parcel with each building, and the list of exactly
\* those intersections, one per intersecting building in the order of the
\* buildings; with no intersecting building it returns 0 and the empty list.
C10_BuiltAreaIsSum ==
    areaPc = "done" =>
        /\ builtArea = SumOver(Intersecting)
        /\ Len(buildingIntersections) = Cardinality(Intersecting)
        /\ \A n \in 1..Len(buildingIntersections) :
              \E k \in Intersecting :
                  /\ Cardinality({j \in Intersecting : j <= k}) = n
                  /\ buildingIntersections[n].cells
                        = parcelFeature.cells \cap buildings[k].cells
        /\ Intersecting = {} =>
              builtArea = 0 /\ buildingIntersections = <<>>

\* two buildings of which only the second overlaps the parcel, and only in part
C10_Witness ==
    /\ areaPc = "done"
    /\ Len(buildings) = 2
    /\ Intersecting = {2}
    /\ buildings[1].fault = "none"
    /\ buildings[2].cells \ parcelFeature.cells # {}
    /\ builtArea > 0
    /\ Len(buildingIntersections) = 1


\* a library call fails while building k is processed: turf.intersect throws,
\* or turf.area throws on the intersection it returned
Throws(k) ==
    \/ buildings[k].fault = "intersect"
    \/ /\ buildings[k].fault = "area"
       /\ parcelFeature.cells \cap buildings[k].cells # {}

\* C11: when turf.intersect or turf.area throws for a building,
\* computeBuiltArea leaves builtArea and the intersection list as they were
\* before that building, stays in its loop (nothing reaches the caller) and
\* moves on to the next building; the loop visits the buildings one by one,
\* each once, and returns only after the last one.
C11_ThrowIsAbsorbed ==
    /\ [][(areaPc = "loop" /\ i <= Len(buildings) /\ Throws(i)) =>
             /\ builtArea' = builtArea
             /\ buildingIntersections' = buildingIntersections
             /\ areaPc' = "loop"
             /\ i' = i + 1
             /\ buildings' = buildings]_vars
    /\ [][(areaPc = "loop" /\ i <= Len(buildings)) =>
             (areaPc' = "loop" /\ i' = i + 1)]_vars
    /\ [](areaPc = "done" => i = Len(buildings) + 1)

\* turf.area throws on the first building, the second one is counted
C11_Witness ==
    /\ areaPc = "done"
    /\ Len(buildings) = 2
    /\ buildings[1].fault = "area"
    /\ parcelFeature.cells \cap buildings[1].cells # {}
    /\ buildings[2].fault = "none"
    /\ parcelFeature.cells \cap buildings[2].cells # {}
    /\ Len(buildingIntersections) = 1
    /\ builtArea = SumArea(parcelFeature.cells \cap buildings[2].cells)

\* the buildings counted for cell c of the parcel
Covering(c) == {k \in Intersecting : c \in buildings[k].cells}

RECURSIVE SumCovered(_)
SumCovered(S) ==
    IF S = {} THEN 0
    ELSE LET c == CHOOSE x \in S : TRUE
         IN  CellArea(c) * Cardinality(Covering(c)) + SumCovered(S \ {c})

\* C12: builtArea is the unclamped sum over the buildings: every region of
\* the parcel counts once per building that covers it, and the total is not
\* capped at the area of the parcel.
C12_UnclampedSum ==
    areaPc = "done" => builtArea = SumCovered(parcelFeature.cells)

\* two buildings over the same region: builtArea exceeds the parcel's area
C12_Witness ==
    /\ areaPc = "done"
    /\ Len(buildings) = 2
    /\ Intersecting = {1, 2}
    /\ buildings[1].cells \cap buildings[2].cells \cap parcelFeature.cells # {}
    /\ builtArea > SumArea(parcelFeature.cells)


\* C13: in every record pushed by level 4, unbuiltArea = max(0, totalArea -
\* builtArea), so unbuiltArea >= 0; totalArea 1000 and builtArea 250 give 750.
C13_UnbuiltAreaFloored ==
    /\ areaPc = "pushed" =>
          LET diff == FSub(surfaceData.totalArea, Num(builtArea)) IN
          /\ surfaceData.builtArea = Num(builtArea)
          /\ surfaceData.unbuiltArea
                = (IF FLe(Num(0), diff) THEN diff ELSE Num(0))
          /\ FLe(Num(0), surfaceData.unbuiltArea)
    /\ surfaceRecord(Num(1000), 250).unbuiltArea = Num(750)

\* the built area exceeds the declared area of the parcel: the floor applies
C13_Witness ==
    /\ areaPc = "pushed"
    /\ FLt(Num(0), surfaceData.totalArea)
    /\ FLt(surfaceData.totalArea, Num(builtArea))
    /\ surfaceData.unbuiltArea = Num(0)

\* C14: in every record pushed by level 4, occupancyRate = builtArea /
\* totalArea * 100 when totalArea > 0 and 0 otherwise; it is a finite number,
\* never negative.
C14_OccupancyRate ==
    /\ areaPc = "pushed" =>
          /\ FLt(Num(0), surfaceData.totalArea) =>
                surfaceData.occupancyRate
                   = FDiv(Num(100 * builtArea), surfaceData.totalArea)
          /\ ~FLt(Num(0), surfaceData.totalArea) =>
                surfaceData.occupancyRate = Num(0)
          /\ IsFinite(surfaceData.occupancyRate)
          /\ FLe(Num(0), surfaceData.occupancyRate)
    /\ surfaceRecord(Num(1000), 250).occupancyRate = Num(25)

\* a parcel of declared area 0 on which buildings stand
C14_Witness ==
    /\ areaPc = "pushed"
    /\ surfaceData.totalArea = Num(0)
    /\ builtArea > 0
    /\ surfaceData.occupancyRate = Num(0)


\* C15: a transform is immutable: whatever toPixel calls were made before
\* and even after the caller has overwritten the bbox array it passed in,
\* toPixel(lon, lat) returns the value determined by the arguments of
\* createGeoToPdfTransform alone, and no toPixel call changes the transform,
\* the caller's array or any other state.
C15_TransformImmutable ==
    /\ [](op = "toPixel" =>
            /\ transform = createGeoToPdfTransform(GeoBboxArg, PageWidthArg,
                                                   PageHeightArg)
            /\ pixel = << FMul(FDiv(FSub(pixelArgs[1], GeoBboxArg[1]),
                                    FSub(GeoBboxArg[3], GeoBboxArg[1])),
                               PageWidthArg),
                          FMul(FDiv(FSub(pixelArgs[2], GeoBboxArg[2]),
                                    FSub(GeoBboxArg[4], GeoBboxArg[2])),
                               PageHeightArg) >>)
    /\ [][(op' = "toPixel" /\ <<op, pixelArgs>>' # <<op, pixelArgs>>) =>
             /\ transform' = transform
             /\ transformArgs' = transformArgs
             /\ geoBboxArray' = geoBboxArray
             /\ areaVars' = areaVars
             /\ proj' = proj]_vars
    /\ [][geoBboxArray' # geoBboxArray /\ op' = op =>
             transform' = transform /\ pixel' = pixel]_vars

\* a second toPixel call, made after the caller overwrote its array
C15_Witness ==
    /\ op = "toPixel"
    /\ geoBboxArray = OverwrittenBbox
    /\ geoBboxArray # GeoBboxArg
    /\ PositiveExtent(GeoBboxArg)
    /\ pixelArgs = <<GeoBboxArg[3], GeoBboxArg[4]>>
    /\ pixel = <<PageWidthArg, PageHeightArg>>

\* C16: with a bbox of zero width (height), toPixel returns a non-finite x
\* (y) for every input, and the coordinate of the other axis is scaled as
\* usual (finite when that axis has a non-zero extent).
C16_ZeroExtentNonFinite ==
    op = "toPixel" =>
        LET b == GeoBboxArg IN
        /\ b[1] = b[3] => ~IsFinite(pixel[1])
        /\ b[2] = b[4] => ~IsFinite(pixel[2])
        /\ (b[1] = b[3] /\ b[2] # b[4]) =>
              /\ IsFinite(pixel[2])
              /\ FMul(pixel[2], FSub(b[4], b[2]))
                    = FMul(FSub(pixelArgs[2], b[2]), PageHeightArg)
        /\ (b[2] = b[4] /\ b[1] # b[3]) =>
              /\ IsFinite(pixel[1])
              /\ FMul(pixel[1], FSub(b[3], b[1]))
                    = FMul(FSub(pixelArgs[1], b[1]), PageWidthArg)

\* zero width, positive height: x is NaN at the box's longitude, y is scaled
C16_Witness ==
    /\ op = "toPixel"
    /\ GeoBboxArg[1] = GeoBboxArg[3]
    /\ FLt(GeoBboxArg[2], GeoBboxArg[4])
    /\ pixelArgs = <<GeoBboxArg[1], GeoBboxArg[4]>>
    /\ IsNaN(pixel[1])
    /\ pixel[2] = PageHeightArg


Occurs(t, s) ==
    \E j \in 0..(Len(s) - Len(t)) : SubSeq(s, j + 1, j + Len(t)) = t

IsInvalidIdentifierError(error, id) ==
    /\ error # Undefined
    /\ Head(error) = "Invalid parcel identifier: \""
    /\ Occurs(id, Tail(error))

\* C18: parseParcelId throws an 'Invalid parcel identifier' error whose
\* message contains the identifier exactly when the identifier's length is
\* not 14, whatever its characters; fetchParcelGeometry given such an
\* identifier is rejected with that error, and neither the cache nor the
\* network has been touched for it.
C18_InvalidIdentifier ==
    /\ [](op = "parseParcelId" =>
            /\ parsed.threw <=> Len(parseArg) # 14
            /\ parsed.threw => IsInvalidIdentifierError(parsed.error, parseArg))
    /\ [](\A k \in DOMAIN calls :
            Len(calls[k].id) # 14 =>
                /\ calls[k].pc = "rejected"
                /\ IsInvalidIdentifierError(calls[k].error, calls[k].id)
                /\ \A e \in DOMAIN events : events[e][1] # k)
    /\ [][(Len(calls') = Len(calls) + 1
             /\ Len(calls'[Len(calls')].id) # 14) =>
                /\ events' = events
                /\ parcellesCache' = parcellesCache
                /\ heap' = heap]_vars

\* a 13-character identifier is refused while an earlier call awaits its
\* download
C18_Witness ==
    /\ Len(calls) = 2
    /\ calls[1].pc = "http"
    /\ calls[2].id = IdShort
    /\ calls[2].pc = "rejected"
    /\ Len(events) = 2
    /\ parcellesCache = NoCache

\* C19: parseParcelId splits a 14-character identifier by position into
\* department (2), municipality (3), absorbed prefix (3), section (2) and
\* number (4): codeInsee + comAbs + section + numero is the identifier and
\* codeDep is the first two characters of codeInsee.
C19_SplitByPosition ==
    (op = "parseParcelId" /\ Len(parseArg) = 14) =>
        /\ ~parsed.threw
        /\ parsed.value.codeInsee \o parsed.value.comAbs
               \o parsed.value.section \o parsed.value.numero = parseArg
        /\ parsed.value.codeDep = SubSeq(parsed.value.codeInsee, 1, 2)
        /\ Len(parsed.value.codeDep) = 2
        /\ Len(parsed.value.codeInsee) = 2 + 3
        /\ Len(parsed.value.comAbs) = 3
        /\ Len(parsed.value.section) = 2
        /\ Len(parsed.value.numero) = 4

C19_Witness ==
    /\ op = "parseParcelId"
    /\ parseArg = IdArbitrary
    /\ parsed.value.codeInsee = <<"a", " ", "c", "?", "e">>
    /\ parsed.value.section = <<"i", "j">>

\* the features of collection object c that bear the identifier id
Bearing(c, id) ==
    {n \in DOMAIN heap[c].features :
        /\ heap[c].features[n].properties # Undefined
        /\ heap[c].features[n].properties.id = id}

\* C20: a feature returned by fetchParcelGeometry has a MultiPolygon geometry;
\* it is a feature of the municipality bearing the requested id, with the
\* same properties, with coordinates [R] when its source is a Polygon of
\* rings R and with the same coordinates when its source is a MultiPolygon;
\* when no feature of the municipality bears the id the call fails with
\* 'Parcel not found'.
C20_AlwaysMultiPolygon ==
    /\ [](\A k \in DOMAIN calls :
            calls[k].pc = "returned" =>
                calls[k].feature.geometry.type = "MultiPolygon")
    /\ [][\A k \in DOMAIN calls :
            (calls[k].pc = "resolved" /\ calls'[k].pc # "resolved") =>
                IF Bearing(calls[k].collection, calls[k].id) = {}
                THEN /\ calls'[k].pc = "rejected"
                     /\ Head(calls'[k].error) = "Parcel not found: "
                ELSE /\ calls'[k].pc = "returned"
                     /\ \E n \in Bearing(calls[k].collection, calls[k].id) :
                          LET source == heap[calls[k].collection].features[n]
                              feature == calls'[k].feature
                          IN
                          /\ feature.properties = source.properties
                          /\ source.geometry.type = "Polygon" =>
                                feature.geometry.coordinates =
                                    << source.geometry.coordinates >>
                          /\ source.geometry.type = "MultiPolygon" =>
                                feature.geometry.coordinates =
                                    source.geometry.coordinates]_vars

\* the Polygon with a hole has been returned as a one-polygon MultiPolygon
C20_Witness ==
    \E k \in DOMAIN calls :
        /\ calls[k].pc = "returned"
        /\ calls[k].id = Id33063000BW0124
        /\ calls[k].feature.geometry =
               [type |-> "MultiPolygon",
                coordinates |-> << <<OuterRing, HoleRing>> >>]


\* the HTTP requests made so far for the parcel file of municipality c
RequestsFor(c) ==
    {e \in DOMAIN events : events[e][2] = "axios.get" /\ events[e][3] = c}

\* C21: within one process the parcel file of a municipality is requested
\* over HTTP at most once, also when the fetchParcelGeometry calls are
\* started together.
C21_AtMostOneRequest ==
    \A e \in DOMAIN events : Cardinality(RequestsFor(events[e][3])) <= 1


\* a >= b on numbers: false as soon as one of them is NaN
Geq(a, b) == ~IsNaN(a) /\ ~IsNaN(b) /\ (a = b \/ FLt(b, a))

\* C22: downloadCadastralPDF is rejected with 'Invalid bbox' exactly when
\* minLon >= maxLon or minLat >= maxLat, and then no request has been sent;
\* for every other bbox exactly one request has been sent.
C22_InvalidBboxNoRequest ==
    op = "downloadCadastralPDF" =>
        LET b == download.params.bbox
            invalid == Geq(b[1], b[3]) \/ Geq(b[2], b[4])
        IN  /\ invalid =>
                /\ download.pc = "rejected"
                /\ download.error.text[1] = "Invalid bbox: ["
                /\ download.error.bbox = b
                /\ wmsRequests = <<>>
            /\ ~invalid =>
                /\ Len(wmsRequests) = 1
                /\ download.pc = "rejected" =>
                       download.error.text[1] # "Invalid bbox: ["

\* a bbox of zero width and positive height is refused before any request
C22_Witness ==
    /\ op = "downloadCadastralPDF"
    /\ download.params.bbox[1] = download.params.bbox[3]
    /\ FLt(download.params.bbox[2], download.params.bbox[4])
    /\ download.pc = "rejected"
    /\ wmsRequests = <<>>

\* C23: once the response bytes are there, downloadCadastralPDF returns
\* exactly when they are at least 5 and begin with '%PDF-', and returns them
\* unchanged; otherwise it fails with 'The WMS server returned an error' when
\* the first 500 bytes contain 'ServiceException' or 'Error', and with 'not a
\* valid PDF' in every other case.
C23_PdfCheck ==
    (download.pc \in {"returned", "rejected"}
        /\ download.response.kind = "data") =>
        LET data == download.response.data
            isPdf == Len(data) >= 5
                       /\ SubSeq(data, 1, 5) = <<"%", "P", "D", "F", "-">>
            head == IF Len(data) > 500 THEN SubSeq(data, 1, 500) ELSE data
            named == \/ Occurs(<<"S", "e", "r", "v", "i", "c", "e", "E", "x",
                                 "c", "e", "p", "t", "i", "o", "n">>, head)
                     \/ Occurs(<<"E", "r", "r", "o", "r">>, head)
        IN  /\ download.pc = "returned" <=> isPdf
            /\ isPdf => download.value = data
            /\ (~isPdf /\ named) =>
                   download.error.text[1] =
                       "The WMS server returned an error instead of a PDF. Check the bbox ["
            /\ (~isPdf /\ ~named) =>
                   download.error.text =
                       <<"The WMS server response is not a valid PDF.">>

\* 'Error' begins at byte 498: only 'Err' lies within the first 500 bytes
C23_Witness ==
    /\ download.pc = "rejected"
    /\ download.response.kind = "data"
    /\ Len(download.response.data) = 502
    /\ download.error.text = <<"The WMS server response is not a valid PDF.">>

\* C25: the request sent for a valid bbox [minLon, minLat, maxLon, maxLat]
\* carries BBOX = minLat,minLon,maxLat,maxLon with CRS EPSG:4326, and WIDTH
\* and HEIGHT equal to the values given, or to 1190 and 842 when omitted.
C25_WmsRequest ==
    (op = "downloadCadastralPDF" /\ wmsRequests # <<>>) =>
        LET p == download.params
            request == wmsRequests[Len(wmsRequests)]
        IN  /\ request.BBOX = <<p.bbox[2], p.bbox[1], p.bbox[4], p.bbox[3]>>
            /\ request.CRS = "EPSG:4326"
            /\ request.WIDTH = (IF p.width = Undefined THEN Num(1190)
                                ELSE p.width)
            /\ request.HEIGHT = (IF p.height = Undefined THEN Num(842)
                                 ELSE p.height)

\* the box [0, 0, 10, 20] with a width of 800 and no height
C25_Witness ==
    /\ op = "downloadCadastralPDF"
    /\ download.params.bbox = <<Num(0), Num(0), Num(10), Num(20)>>
    /\ download.params.width = Num(800)
    /\ download.params.height = Undefined
    /\ Len(wmsRequests) = 1
    /\ wmsRequests[1].BBOX = <<Num(0), Num(0), Num(20), Num(10)>>
    /\ wmsRequests[1].HEIGHT = Num(842)


\* the polygons of the drawn coordinates whose outer ring exists and has at
\* least 3 points
Drawable ==
    {k \in 1..Len(drawArgs.coordinates) :
        /\ Len(drawArgs.coordinates[k]) >= 1
        /\ Len(drawArgs.coordinates[k][1]) >= 3}

\* C24: drawMultiPolygon draws nothing for a polygon whose outer ring is
\* missing or has fewer than 3 points and for an empty coordinates array; for
\* every other polygon it issues exactly one path, in polygon order, built
\* from the outer ring only: one vertex per ring point, in ring order, at the
\* pixel toPixel gives (y negated), then the closing command.
C24_OuterRingPaths ==
    op = "drawMultiPolygon" =>
        /\ Len(page) = Cardinality(Drawable)
        /\ \A k \in Drawable :
              LET n == Cardinality({j \in Drawable : j <= k})
                  ring == drawArgs.coordinates[k][1]
                  path == page[n].path
              IN  /\ Len(path) = Len(ring) + 1
                  /\ \A v \in 1..Len(ring) :
                        LET px == toPixel(drawArgs.transform,
                                          ring[v][1], ring[v][2])
                        IN  /\ path[v].x = px[1]
                            /\ path[v].y = FNeg(px[2])
                            /\ path[v].cmd = (IF v = 1 THEN "M" ELSE "L")
                  /\ path[Len(path)].cmd = "Z"

\* a polygon with a short outer ring and a long hole, then a polygon with a
\* hole: one path only, of the second polygon's outer ring
C24_Witness ==
    /\ op = "drawMultiPolygon"
    /\ drawArgs.coordinates = << <<Segment, OuterRing>>, <<Triangle, OuterRing>> >>
    /\ Len(page) = 1
    /\ Len(page[1].path) = 4


\* every point of a coordinates array, whatever its size
AllPoints(c) ==
    UNION {UNION {{c[a][b][k] : k \in 1..Len(c[a][b])} : b \in 1..Len(c[a])} :
              a \in 1..Len(c)}

\* the points of the run's parcels all share one longitude or one latitude
\* (a parcel set without points included)
RunDegenerate ==
    LET pts == AllPoints(allCoordsOf(run.features))
    IN  \/ \A p \in pts, q \in pts : p[1] = q[1]
        \/ \A p \in pts, q \in pts : p[2] = q[2]

\* the transform of a run is built after downloadCadastralPDF returned on the
\* bbox the transform is built from, which has positive width and height
RunTransformAfterDownload ==
    run.transform # NoTransform =>
        /\ run.pc = "done"
        /\ download.pc = "returned"
        /\ Len(wmsRequests) = 1
        /\ download.params.bbox = run.globalBbox
        /\ wmsRequests[1].BBOX = <<run.globalBbox[2], run.globalBbox[1],
                                   run.globalBbox[4], run.globalBbox[3]>>
        /\ run.transform = createGeoToPdfTransform(run.globalBbox,
                                run.pageSize[1], run.pageSize[2])
        /\ FLt(run.globalBbox[1], run.globalBbox[3])
        /\ FLt(run.globalBbox[2], run.globalBbox[4])

\* every vertex drawn by a run is a pair of finite numbers
RunPixelsFinite ==
    run.level # 0 =>
        \A n \in 1..Len(page) : \A v \in 1..(Len(page[n].path) - 1) :
            IsFinite(page[n].path[v].x) /\ IsFinite(page[n].path[v].y)

\* the bbox of the run's parcels is refused under every margin when the
\* parcels have a point, and under every positive margin when they have none
\* (the bbox of no point is [Infinity, Infinity, -Infinity, -Infinity], which
\* a margin of zero or less turns into NaN, and NaN passes the comparison)
RunBboxRefusedForMargins ==
    \A m \in NumericMargins :
        (AllPoints(allCoordsOf(run.features)) # {} \/ FLt(Num(0), m)) =>
            isInvalidBbox(expandBbox(computeBbox(allCoordsOf(run.features)), m))

\* whatever the margin, the bbox of the run's parcels is refused
RunBboxRefusedForEveryMargin ==
    \A m \in NumericMargins :
        isInvalidBbox(expandBbox(computeBbox(allCoordsOf(run.features)), m))

OnPage(x, y, pageWidth, pageHeight) ==
    /\ FLe(Num(0), x) /\ FLe(x, pageWidth)
    /\ FLe(Num(0), y) /\ FLe(y, pageHeight)

\* the polygons of a coordinates array that drawMultiPolygon draws
DrawnPolygons(c) ==
    {k \in 1..Len(c) : Len(c[k]) >= 1 /\ Len(c[k][1]) >= 3}

\* C27: a transform built from expandBbox(computeBbox(C), m) with m >= 0 and
\* positive width and height maps every point of C to a pixel with
\* 0 <= x <= pageWidth and 0 <= y <= pageHeight; so in the level 2, 3 and 4
\* runs every vertex of every drawn parcel lies on the page.
C27_PointsOnPage ==
    run.pc = "done" =>
        LET C == allCoordsOf(run.features)
            drawn == DrawnPolygons(C)
        IN  /\ \A m \in {a \in MarginInputs : a = Undefined \/ FLe(Num(0), a)} :
                  LET e == expandBbox(computeBbox(C), m)
                      size == run.pageSize
                  IN  (FLt(e[1], e[3]) /\ FLt(e[2], e[4])) =>
                          LET t == createGeoToPdfTransform(e, size[1], size[2])
                          IN  \A p \in AllPoints(C) :
                                  LET px == toPixel(t, p[1], p[2])
                                  IN  OnPage(px[1], px[2], size[1], size[2])
            /\ Len(page) = Cardinality(drawn)
            /\ \A k \in drawn :
                  LET n == Cardinality({j \in drawn : j <= k})
                      ring == C[k][1]
                  IN  /\ Len(page[n].path) = Len(ring) + 1
                      /\ \A v \in 1..Len(ring) :
                            /\ <<page[n].path[v].x, FNeg(page[n].path[v].y)>> =
                                   toPixel(run.transform, ring[v][1], ring[v][2])
                            /\ OnPage(page[n].path[v].x, FNeg(page[n].path[v].y),
                                      run.pageSize[1], run.pageSize[2])

\* a level 4 run has drawn two parcels far from each other, the first one
\* with a hole, on a page of 800 x 400
C27_Witness ==
    /\ run.pc = "done"
    /\ run.level = 4
    /\ Len(run.features) = 2
    /\ run.features[1].geometry.coordinates = << <<OuterRing, HoleRing>> >>
    /\ run.features[2].geometry.coordinates = << <<FarRing>> >>
    /\ run.pageSize = <<Num(800), Num(400)>>
    /\ Len(page) = 2


\* C28: in generateLevel4 the built area of every parcel is computed against
\* the buildings of that parcel's own municipality, also when the ids belong
\* to different municipalities.
C28_OwnMunicipalityBuildings ==
    (run.level = 4 /\ run.pc = "done") =>
        \A k \in 1..Len(run.parcelIds) :
            run.builtAgainst[k] = parseParcelId(run.parcelIds[k]).value.codeInsee

====
